---------------------------- MODULE Spec2Model ----------------------------
(***************************************************************************)
(* Verification model of the paragraphs-builder module.                    *)
(*                                                                         *)
(*  Part I   the source rewrite transform (src/build.config.ts):           *)
(*           estreeToObject, buildRuntimeDefinition and the unplugin       *)
(*           `transform` hook, over source text given as a sequence of     *)
(*           lexemes.  A lexeme stands for the bytes it is written with;   *)
(*           offsets (start, end) count lexemes.                           *)
(*  Part II  the builder:watch handler of the module setup (src/index.ts)  *)
(*           with the registry of the extractor and the templates.         *)
(*  Part III the enumerations and the templates of setup (src/index.ts):   *)
(*           getChunkNames, getFieldListTypes, the addTemplate calls.      *)
(*  Part IV  defineParagraph at runtime                                    *)
(*           (src/runtime/composables/defineParagraph.ts): the default     *)
(*           options and the variant of the returned options.              *)
(*  Part V   the animation provider                                        *)
(*           (src/src/runtime/helpers/animationProvider.ts): the frame     *)
(*           counter and the frame callback.                               *)
(*  Part VI  the state provider                                            *)
(*           (src/src/runtime/helpers/stateProvider.ts): setContext,       *)
(*           mutateWithLoadingState and editMode.                          *)
(*  Part VII the delayed intersection observer (src/src/runtime/helpers/   *)
(*           composables/useDelayedIntersectionObserver.ts).               *)
(***************************************************************************)
EXTENDS Integers, Sequences, FiniteSets, TLC

(***************************************************************************)
(* Bounds of the model.                                                    *)
(***************************************************************************)
\* options written inside one `options: { ... }` literal
MaxOptions == 2
\* further calls following the first call of a file
MaxMoreCalls == 1
\* builder:watch notifications of one dev session
MaxNotifications == 3
\* names in a configured list of moduleOptions
MaxNames == 3

(***************************************************************************)
(* Lexemes.                                                                *)
(***************************************************************************)
Id(name) == [k |-> "id", s |-> name]
P(sym) == [k |-> "p", s |-> sym]
Str(quote, text) == [k |-> "str", q |-> quote, s |-> text]
Num(i) == [k |-> "num", n |-> i]
Kw(word) == [k |-> "kw", s |-> word]
Tpl(text) == [k |-> "tpl", s |-> text]

RECURSIVE Flatten(_)
Flatten(ss) == IF ss = <<>> THEN <<>> ELSE Head(ss) \o Flatten(Tail(ss))

RECURSIVE Join(_, _)
Join(ss, sep) ==
  IF ss = <<>> THEN <<>>
  ELSE IF Len(ss) = 1 THEN ss[1]
  ELSE ss[1] \o <<sep>> \o Join(Tail(ss), sep)

\* source text of an object literal, a property, an array literal, a call
ObjSrc(props) == <<P("{")>> \o Join(props, P(",")) \o <<P("}")>>
PropSrc(key, value) == key \o <<P(":")>> \o value
ArrSrc(elems) == <<P("[")>> \o Join(elems, P(",")) \o <<P("]")>>
CallSrc(callee, args) == callee \o <<P("(")>> \o Join(args, P(",")) \o <<P(")")>>

(***************************************************************************)
(* JavaScript values of the literal subset.                                *)
(***************************************************************************)
VString(text) == [t |-> "string", s |-> text]
VNumber(i) == [t |-> "number", n |-> i]
VBoolean(v) == [t |-> "boolean", b |-> v]
VNull == [t |-> "null"]
VUndefined == [t |-> "undefined"]
VObject(es) == [t |-> "object", entries |-> es]
VArray(es) == [t |-> "array", elements |-> es]
Entry(name, v) == [key |-> name, val |-> v]

\* ToBoolean(v)
Truthy(v) ==
  CASE v.t = "string" -> v.s # ""
    [] v.t = "number" -> v.n # 0
    [] v.t = "boolean" -> v.b
    [] v.t = "null" -> FALSE
    [] v.t = "undefined" -> FALSE
    [] OTHER -> TRUE

\* o[name] of an object value
HasKey(o, name) == \E i \in 1..Len(o.entries) : o.entries[i].key = name
Get(o, name) ==
  IF o.t = "object" /\ HasKey(o, name)
  THEN o.entries[CHOOSE i \in 1..Len(o.entries) : o.entries[i].key = name].val
  ELSE VUndefined

\* Object.fromEntries: a repeated key keeps its first position and takes
\* the last value.
RECURSIVE FromEntries(_, _)
FromEntries(pairs, acc) ==
  IF pairs = <<>> THEN acc
  ELSE LET e == Head(pairs)
           hit == {i \in 1..Len(acc) : acc[i].key = e.key}
       IN FromEntries(Tail(pairs),
            IF hit = {} THEN Append(acc, e)
            ELSE [i \in 1..Len(acc) |-> IF i \in hit THEN e ELSE acc[i]])

(***************************************************************************)
(* this.parse(source): the ESTree of the literal subset, with the offsets  *)
(* acorn attaches to every node.                                           *)
(***************************************************************************)
Tok(toks, i) == IF i <= Len(toks) THEN toks[i] ELSE P("<eof>")

RECURSIVE ParseExpr(_, _)
RECURSIVE ParsePostfix(_, _, _)
RECURSIVE ParseList(_, _, _, _)
RECURSIVE ParseProps(_, _, _)

\* expressions separated by commas up to the closing lexeme
ParseList(toks, i, close, acc) ==
  IF Tok(toks, i) = P(close) THEN [nodes |-> acc, next |-> i + 1]
  ELSE LET e == ParseExpr(toks, i)
           j == IF Tok(toks, e.next) = P(",") THEN e.next + 1 ELSE e.next
       IN ParseList(toks, j, close, Append(acc, e.node))

ParseProps(toks, i, acc) ==
  LET t == Tok(toks, i)
      after(j) == IF Tok(toks, j) = P(",") THEN j + 1 ELSE j
  IN
  IF t = P("}") THEN [nodes |-> acc, next |-> i + 1]
  ELSE IF t = P("...") THEN
    LET a == ParseExpr(toks, i + 1)
    IN ParseProps(toks, after(a.next),
         Append(acc, [type |-> "SpreadElement", argument |-> a.node,
                      start |-> i - 1, end |-> a.next - 1]))
  ELSE IF t = P("[") THEN
    \* computed key: [ expr ] : value
    LET key == ParseExpr(toks, i + 1)
        v == ParseExpr(toks, key.next + 2)
    IN ParseProps(toks, after(v.next),
         Append(acc, [type |-> "Property", computed |-> TRUE, key |-> key.node,
                      value |-> v.node, start |-> i - 1, end |-> v.next - 1]))
  ELSE
    LET key == IF t.k = "id"
               THEN [type |-> "Identifier", name |-> t.s,
                     start |-> i - 1, end |-> i]
               ELSE IF t.k = "str"
               THEN [type |-> "Literal", value |-> VString(t.s),
                     start |-> i - 1, end |-> i]
               ELSE [type |-> "Literal", value |-> VNumber(t.n),
                     start |-> i - 1, end |-> i]
        v == ParseExpr(toks, i + 2)
    IN ParseProps(toks, after(v.next),
         Append(acc, [type |-> "Property", computed |-> FALSE, key |-> key,
                      value |-> v.node, start |-> i - 1, end |-> v.next - 1]))

\* member accesses and calls following an expression
ParsePostfix(toks, base, i) ==
  IF Tok(toks, i) = P(".") THEN
    ParsePostfix(toks,
      [type |-> "MemberExpression", object |-> base,
       property |-> [type |-> "Identifier", name |-> Tok(toks, i + 1).s,
                     start |-> i, end |-> i + 1],
       start |-> base.start, end |-> i + 1],
      i + 2)
  ELSE IF Tok(toks, i) = P("(") THEN
    LET args == ParseList(toks, i + 1, ")", <<>>)
    IN ParsePostfix(toks,
         [type |-> "CallExpression", callee |-> base, arguments |-> args.nodes,
          start |-> base.start, end |-> args.next - 1],
         args.next)
  ELSE [node |-> base, next |-> i]

ParseExpr(toks, i) ==
  LET t == Tok(toks, i)
      lit(v) == [node |-> [type |-> "Literal", value |-> v,
                           start |-> i - 1, end |-> i],
                 next |-> i + 1]
  IN
  CASE t.k = "str" -> lit(VString(t.s))
    [] t.k = "num" -> lit(VNumber(t.n))
    [] t.k = "kw" ->
         lit(IF t.s = "null" THEN VNull ELSE VBoolean(t.s = "true"))
    [] t.k = "tpl" ->
         [node |-> [type |-> "TemplateLiteral", start |-> i - 1, end |-> i],
          next |-> i + 1]
    [] t.k = "id" ->
         ParsePostfix(toks,
           [type |-> "Identifier", name |-> t.s, start |-> i - 1, end |-> i],
           i + 1)
    [] t = P("{") ->
         LET ps == ParseProps(toks, i + 1, <<>>)
         IN [node |-> [type |-> "ObjectExpression", properties |-> ps.nodes,
                       start |-> i - 1, end |-> ps.next - 1],
             next |-> ps.next]
    [] t = P("[") ->
         LET es == ParseList(toks, i + 1, "]", <<>>)
         IN [node |-> [type |-> "ArrayExpression", elements |-> es.nodes,
                       start |-> i - 1, end |-> es.next - 1],
             next |-> es.next]

\* a module body: expression statements closed by ";"
RECURSIVE ParseBody(_, _, _)
ParseBody(toks, i, acc) ==
  IF i > Len(toks) THEN acc
  ELSE LET e == ParseExpr(toks, i)
           j == IF Tok(toks, e.next) = P(";") THEN e.next + 1 ELSE e.next
       IN ParseBody(toks, j,
            Append(acc, [type |-> "ExpressionStatement", expression |-> e.node,
                         start |-> i - 1, end |-> j - 1]))

Parse(toks) ==
  [type |-> "Program", body |-> ParseBody(toks, 1, <<>>),
   start |-> 0, end |-> Len(toks)]


(***************************************************************************)
(* estree-walker's walk: every node is entered before its children, the    *)
(* children in source order.  Only CallExpression nodes get past the first *)
(* test of the visitor, so the walk is given as the CallExpression nodes   *)
(* in the order they are entered.                                          *)
(***************************************************************************)
RECURSIVE CallsIn(_)
RECURSIVE CallsInAll(_)
CallsInAll(nodes) ==
  IF nodes = <<>> THEN <<>> ELSE CallsIn(Head(nodes)) \o CallsInAll(Tail(nodes))

CallsIn(node) ==
  CASE node.type = "Program" -> CallsInAll(node.body)
    [] node.type = "ExpressionStatement" -> CallsIn(node.expression)
    [] node.type = "CallExpression" ->
         <<node>> \o CallsIn(node.callee) \o CallsInAll(node.arguments)
    [] node.type = "MemberExpression" ->
         CallsIn(node.object) \o CallsIn(node.property)
    [] node.type = "ObjectExpression" -> CallsInAll(node.properties)
    [] node.type = "Property" -> CallsIn(node.key) \o CallsIn(node.value)
    [] node.type = "SpreadElement" -> CallsIn(node.argument)
    [] node.type = "ArrayExpression" -> CallsInAll(node.elements)
    [] OTHER -> <<>>

(***************************************************************************)
(* estreeToObject                                                          *)
(***************************************************************************)
\* 'name' in prop.key
NameInKey(key) == key.type = "Identifier"

RECURSIVE estreeToObject(_)
RECURSIVE PropEntries(_)

\* variant: the conversion gives up at the first property it cannot convert
RECURSIVE PropEntriesUntilUnsupported(_)
PropEntriesUntilUnsupported(props) ==
  IF props = <<>> THEN <<>>
  ELSE LET prop == Head(props)
       IN IF prop.type = "Property" /\ NameInKey(prop.key)
             /\ prop.value.type \in {"Literal", "ObjectExpression"}
          THEN <<Entry(prop.key.name,
                       IF prop.value.type = "Literal" THEN prop.value.value
                       ELSE estreeToObject(prop.value))>>
               \o PropEntriesUntilUnsupported(Tail(props))
          ELSE <<>>

\* the .map(...).filter(falsy) of estreeToObject: one entry per kept property
PropEntries(props) ==
  IF props = <<>> THEN <<>>
  ELSE LET prop == Head(props)
           rest == PropEntries(Tail(props))
       IN IF prop.type = "Property" /\ NameInKey(prop.key)
          THEN IF prop.value.type = "Literal"
               THEN <<Entry(prop.key.name, prop.value.value)>> \o rest
               ELSE IF prop.value.type = "ObjectExpression"
               THEN <<Entry(prop.key.name, estreeToObject(prop.value))>> \o rest
               ELSE rest
          ELSE rest

estreeToObject(expression) ==
  VObject(FromEntries(PropEntries(expression.properties), <<>>))

(***************************************************************************)
(* buildRuntimeDefinition                                                  *)
(***************************************************************************)
\* Object.entries(v): the own entries of an object; a primitive has none
\* that carries a `default`.
ObjectEntries(v) == IF v.t = "object" THEN v.entries ELSE <<>>

\* if (optionDefinition.default)
HasDefault(optionDefinition) == Truthy(Get(optionDefinition, "default"))

RECURSIVE RuntimeOptions(_)
RuntimeOptions(es) ==
  IF es = <<>> THEN <<>>
  ELSE IF HasDefault(Head(es).val)
  THEN <<Entry(Head(es).key,
               VObject(<<Entry("default", Get(Head(es).val, "default"))>>))>>
       \o RuntimeOptions(Tail(es))
  ELSE RuntimeOptions(Tail(es))

\* reading `.default` of null throws a TypeError
BuildThrows(definition) ==
  /\ Truthy(Get(definition, "options"))
  /\ \E i \in 1..Len(ObjectEntries(Get(definition, "options"))) :
       ObjectEntries(Get(definition, "options"))[i].val.t = "null"

buildRuntimeDefinition(definition) ==
  VObject(
    (IF Truthy(Get(definition, "options"))
     THEN <<Entry("options",
                  VObject(RuntimeOptions(ObjectEntries(Get(definition, "options")))))>>
     ELSE <<>>)
    \o
    (IF Truthy(Get(definition, "globalOptions"))
     THEN <<Entry("globalOptions", Get(definition, "globalOptions"))>>
     ELSE <<>>))

(***************************************************************************)
(* JSON.stringify: the text written for a value.  Every key is written as  *)
(* a double-quoted string.                                                 *)
(***************************************************************************)
RECURSIVE JSONstringify(_)
RECURSIVE StringifyEntries(_)
StringifyEntries(es) ==
  IF es = <<>> THEN <<>>
  ELSE <<Str("\"", Head(es).key), P(":")>> \o JSONstringify(Head(es).val)
       \o (IF Len(es) > 1 THEN <<P(",")>> ELSE <<>>)
       \o StringifyEntries(Tail(es))

JSONstringify(v) ==
  CASE v.t = "string" -> <<Str("\"", v.s)>>
    [] v.t = "number" -> <<Num(v.n)>>
    [] v.t = "boolean" -> <<Kw(IF v.b THEN "true" ELSE "false")>>
    [] v.t = "null" -> <<Kw("null")>>
    [] v.t = "object" -> <<P("{")>> \o StringifyEntries(v.entries) \o <<P("}")>>

(***************************************************************************)
(* MagicString: the original text and the overwrites applied to it.        *)
(***************************************************************************)
NewMagicString(text) == [original |-> text, edits |-> <<>>]

\* overwrite throws on an empty range and when a boundary of the range
\* falls inside a chunk that has already been edited
OverwriteThrows(ms, start, end) ==
  \/ start >= end
  \/ \E i \in 1..Len(ms.edits) :
       \/ ms.edits[i].start < start /\ start < ms.edits[i].end
       \/ ms.edits[i].start < end /\ end < ms.edits[i].end

Overwrite(ms, start, end, content) ==
  [ms EXCEPT !.edits =
     Append(SelectSeq(ms.edits, LAMBDA e : ~(start <= e.start /\ e.end <= end)),
            [start |-> start, end |-> end, content |-> content])]

RECURSIVE Assemble(_, _, _)
Assemble(original, edits, pos) ==
  IF pos >= Len(original) THEN <<>>
  ELSE LET here == {i \in 1..Len(edits) : edits[i].start = pos}
       IN IF here # {}
          THEN LET e == edits[CHOOSE i \in here : TRUE]
               IN e.content \o Assemble(original, edits, e.end)
          ELSE <<original[pos + 1]>> \o Assemble(original, edits, pos + 1)

MsToString(ms) == Assemble(ms.original, ms.edits, 0)

HasChanged(ms) == ms.original # MsToString(ms)

(***************************************************************************)
(* The files the transform is run on.                                      *)
(***************************************************************************)
SeqsUpTo(S, n) == UNION {[1..m -> S] : m \in 0..n}

Marker == "defineParagraph"

\* one option of an `options` literal
OptionPool ==
  { PropSrc(<<Id("size")>>,
      ObjSrc(<<PropSrc(<<Id("type")>>, <<Str("'", "radios")>>),
               PropSrc(<<Id("default")>>, <<Str("'", "medium")>>)>>)),
    PropSrc(<<Id("columns")>>, ObjSrc(<<PropSrc(<<Id("default")>>, <<Num(0)>>)>>)),
    PropSrc(<<Id("title")>>, ObjSrc(<<PropSrc(<<Id("default")>>, <<Str("'", "")>>)>>)),
    PropSrc(<<Id("wide")>>, ObjSrc(<<PropSrc(<<Id("default")>>, <<Kw("false")>>)>>)),
    PropSrc(<<Id("icon")>>, ObjSrc(<<PropSrc(<<Id("type")>>, <<Str("'", "text")>>)>>)),
    PropSrc(<<Str("'", "color")>>,
      ObjSrc(<<PropSrc(<<Id("default")>>, <<Str("'", "red")>>)>>)),
    PropSrc(<<P("["), Id("dyn"), P("]")>>,
      ObjSrc(<<PropSrc(<<Id("default")>>, <<Str("'", "x")>>)>>)),
    PropSrc(<<Id("align")>>,
      ObjSrc(<<PropSrc(<<Str("'", "default")>>, <<Str("'", "left")>>)>>)),
    PropSrc(<<Id("link")>>,
      ObjSrc(<<PropSrc(<<Id("default")>>, <<Id("someVariable")>>)>>)),
    PropSrc(<<Id("date")>>,
      ObjSrc(<<PropSrc(<<Id("default")>>, CallSrc(<<Id("now")>>, <<>>)),
               PropSrc(<<Id("label")>>, <<Str("'", "Date")>>)>>)),
    PropSrc(<<Id("tags")>>,
      ObjSrc(<<PropSrc(<<Id("default")>>, ArrSrc(<< <<Str("'", "a")>> >>))>>)),
    <<P("..."), Id("shared")>> }

\* what follows the `options` property in the definition literal
TopTails ==
  { <<>>,
    <<PropSrc(<<Id("globalOptions")>>, ArrSrc(<< <<Str("'", "theme")>> >>))>>,
    <<PropSrc(<<Id("label")>>, <<Tpl("Teaser ${n}")>>),
      PropSrc(<<Id("globalOptions")>>,
              ArrSrc(<< <<Str("'", "theme")>>, <<Str("'", "spacing")>> >>))>>,
    <<PropSrc(<<Id("bundle")>>, <<Str("'", "teaser")>>),
      <<P("..."), Id("base")>> >> }

DefinitionSrc(options, tail) ==
  ObjSrc(<<PropSrc(<<Id("options")>>, ObjSrc(options))>> \o tail)

\* defineParagraph({ options: { ... }, ... }) ;
RichCalls ==
  { CallSrc(<<Id(Marker)>>, <<DefinitionSrc(options, tail)>>) \o <<P(";")>> :
      options \in SeqsUpTo(OptionPool, MaxOptions), tail \in TopTails }

SizeOnly ==
  <<PropSrc(<<Id("size")>>,
            ObjSrc(<<PropSrc(<<Id("default")>>, <<Str("'", "medium")>>)>>))>>

\* statements of files that hold several calls
SimpleCalls ==
  { CallSrc(<<Id(Marker)>>, << <<Id("someVariable")>> >>) \o <<P(";")>>,
    CallSrc(<<Id(Marker)>>, <<>>) \o <<P(";")>>,
    CallSrc(<<Id(Marker)>>, <<ObjSrc(<<>>)>>) \o <<P(";")>>,
    CallSrc(<<Id(Marker)>>, <<DefinitionSrc(SizeOnly, <<>>)>>) \o <<P(";")>>,
    CallSrc(<<Id(Marker)>>,
      <<ObjSrc(<<PropSrc(<<Str("'", "options")>>, ObjSrc(SizeOnly)),
                 PropSrc(<<P("["), Id("dyn"), P("]")>>, <<Num(1)>>)>>)>>)
      \o <<P(";")>>,
    CallSrc(<<Id(Marker)>>,
      <<ObjSrc(<<PropSrc(<<Id("options")>>, <<Kw("null")>>),
                 PropSrc(<<Id("nested")>>,
                   CallSrc(<<Id(Marker)>>, <<DefinitionSrc(SizeOnly, <<>>)>>))>>)>>)
      \o <<P(";")>>,
    CallSrc(<<Id(Marker)>>,
      <<ObjSrc(<<PropSrc(<<Id("options")>>,
                   ObjSrc(<<PropSrc(<<Id("size")>>, <<Kw("null")>>)>>))>>)>>)
      \o <<P(";")>>,
    CallSrc(<<Id("useParagraph"), P("."), Id(Marker)>>,
      <<DefinitionSrc(SizeOnly, <<>>)>>) \o <<P(";")>>,
    CallSrc(<<Id("foo")>>, <<DefinitionSrc(SizeOnly, <<>>)>>) \o <<P(";")>>,
    CallSrc(<<Id("log")>>, << <<Str("'", Marker)>> >>) \o <<P(";")>> }

Sources ==
  RichCalls
  \cup {Flatten(calls) : calls \in SeqsUpTo(SimpleCalls, 1 + MaxMoreCalls)}

Ids == {"Teaser.vue", "teaser.ts"}

\* fileRegex.test(id)
FileRegexTest(fileId) == fileId \in {"Teaser.vue"}

\* source.includes('defineParagraph')
Includes(text, word) ==
  \E i \in 1..Len(text) : text[i].k \in {"id", "str"} /\ text[i].s = word

(***************************************************************************)
(* State of one run of the transform, and of its re-application.           *)
(***************************************************************************)
VARIABLES
  id,          \* the file id handed to transform
  source,      \* the source text handed to transform
  pc,          \* "start", "walk" or "done": position inside transform
  queue,       \* the call nodes the walk has still to enter
  s,           \* the MagicString
  rejected,    \* start offsets of the nodes whose visitor threw
  entered,     \* the call nodes entered so far, in order
  result,      \* what transform returned
  pass,        \* 1: first application, 2: applied to its own output
  input        \* the source of the first application

tvars == <<id, source, pc, queue, s, rejected, entered, result, pass, input>>

(***************************************************************************)
(* State of the dev server: the watched files, the extractor and the       *)
(* builder:watch handlers (Part II).                                       *)
(***************************************************************************)
VARIABLES
  disk,        \* path -> content of the file, or Absent
  registry,    \* path -> definition the extractor holds, or NoDefinition
  artifacts,   \* template filename -> registry the template was generated from
  handlers     \* the builder:watch handler calls, in arrival order

wvars == <<disk, registry, artifacts, handlers>>

(***************************************************************************)
(* State of setup: the module options and what setup hands on (Part III).  *)
(***************************************************************************)
VARIABLES
  moduleOptions,  \* the options setup is called with
  templates,      \* the templates registered with addTemplate, in order
  generated       \* the generator calls made by getContents callbacks

svars == <<moduleOptions, templates, generated>>

(***************************************************************************)
(* State of a paragraph component at runtime: what defineParagraph is      *)
(* called with, what it injects and what it returned (Part IV).            *)
(***************************************************************************)
VARIABLES
  config,              \* the definition handed to defineParagraph
  paragraphItem,       \* inject(INJECT_BLOCK_ITEM)
  editContext,         \* inject(INJECT_EDIT_CONTEXT, null)
  fromLibraryOptions,  \* inject('paragraphFromLibraryOptions', null)
  paragraph,           \* what defineParagraph returned
  observed             \* options.value as the component read it last

rvars == <<config, paragraphItem, editContext, fromLibraryOptions, paragraph,
           observed>>

(***************************************************************************)
(* State of the animation provider (Part V).                               *)
(***************************************************************************)
VARIABLES
  iterator,    \* the frames still to be rendered
  mouse,       \* <<mouseX, mouseY>>
  requested,   \* a draw has been requested since the provider was created
  emitted,     \* frames that emitted since the last request (or creation)
  lastFrame    \* what the last frame callback emitted, "none" before any

avars == <<iterator, mouse, requested, emitted, lastFrame>>

AnimationOff ==
  /\ iterator = 0
  /\ mouse = <<>>
  /\ requested = FALSE
  /\ emitted = 0
  /\ lastFrame = <<>>


(***************************************************************************)
(* State of the state provider (Part VI).                                  *)
(***************************************************************************)
VARIABLES
  provider,     \* the refs: mutations, currentMutationIndex, mutatedOptions,
                \* violations, owner, entity, translation, mutatedFields,
                \* refreshKey
  isLoading,    \* the ref isLoading
  language,     \* context.value.language
  mutateCalls   \* the calls of mutateWithLoadingState, in call order

pvars == <<provider, isLoading, language, mutateCalls>>

ProviderOff ==
  /\ provider = <<>>
  /\ isLoading = FALSE
  /\ language = ""
  /\ mutateCalls = <<>>


(***************************************************************************)
(* State of the delayed intersection observer (Part VII).                  *)
(***************************************************************************)
VARIABLES
  observer,    \* the IntersectionObserver: its targets and the observe
               \* calls it got, Undefined while it is null
  collected,   \* the elements waiting for init
  earlier,     \* the observers an init has replaced
  history      \* the calls of observe, unobserve and init, in order

ovars == <<observer, collected, earlier, history>>

ObserverOff ==
  /\ observer = <<>>
  /\ collected = <<>>
  /\ earlier = <<>>
  /\ history = <<>>


vars == <<tvars, wvars, svars, rvars, avars, pvars, ovars>>

\* what each part leaves alone
tframe == <<wvars, svars, rvars, avars, pvars, ovars>>
wframe == <<tvars, svars, rvars, avars, pvars, ovars>>
sframe == <<tvars, wvars, rvars, avars, pvars, ovars>>
rframe == <<tvars, wvars, svars, avars, pvars, ovars>>
aframe == <<tvars, wvars, svars, rvars, pvars, ovars>>
pframe == <<tvars, wvars, svars, rvars, avars, ovars>>
oframe == <<tvars, wvars, svars, rvars, avars, pvars>>

RuntimeOff ==
  /\ config = <<>>
  /\ paragraphItem = <<>>
  /\ editContext = <<>>
  /\ fromLibraryOptions = <<>>
  /\ paragraph = <<>>
  /\ observed = <<>>

SetupOff ==
  /\ moduleOptions = <<>>
  /\ templates = <<>>
  /\ generated = {}

\* Part II does not run while a file is transformed, and the other way round
WatchOff ==
  /\ disk = <<>>
  /\ registry = <<>>
  /\ artifacts = <<>>
  /\ handlers = <<>>

TransformOff ==
  /\ id = ""
  /\ source = <<>>
  /\ pc = "off"
  /\ queue = <<>>
  /\ s = <<>>
  /\ rejected = <<>>
  /\ entered = <<>>
  /\ result = <<>>
  /\ pass = 0
  /\ input = <<>>

NoResult == [kind |-> "none"]

\* the code the build goes on with: `return` without a value and
\* `return source` both leave the source as it is
CodeOf(res, text) == IF res.kind = "code" THEN res.code ELSE text

TInit ==
  /\ id \in Ids
  /\ source \in Sources
  /\ input = source
  /\ pc = "start"
  /\ queue = <<>>
  /\ s = NewMagicString(<<>>)
  /\ rejected = <<>>
  /\ entered = <<>>
  /\ result = NoResult
  /\ pass = 1
  /\ WatchOff
  /\ SetupOff
  /\ RuntimeOff
  /\ AnimationOff
  /\ ProviderOff
  /\ ObserverOff

\* lines 113-126: the two early returns, then new MagicString and parse
TransformStart ==
  /\ pc = "start"
  /\ IF ~FileRegexTest(id) \/ ~Includes(source, Marker)
     THEN /\ result' = [kind |-> "undefined"]
          /\ pc' = "done"
          /\ UNCHANGED <<queue, s>>
     ELSE /\ s' = NewMagicString(source)
          /\ queue' = CallsIn(Parse(source))
          /\ pc' = "walk"
          /\ UNCHANGED result
  /\ UNCHANGED <<id, source, rejected, entered, pass, input>>
  /\ UNCHANGED tframe

\* variant: the range of the whole call instead of that of its argument
OverwriteRangeOfCall(node) == [start |-> node.start, end |-> node.end]

\* the range handed to s.overwrite
OverwriteRange(node) ==
  [start |-> node.arguments[1].start, end |-> node.arguments[1].end]

\* variant: the callee name is not compared with the marker
IsIdentifierCall(node) == node.callee.type = "Identifier"

\* name === 'defineParagraph'
IsDefinitionCall(node) ==
  node.callee.type = "Identifier" /\ node.callee.name = Marker

\* arg.type === 'ObjectExpression'
IsObjectArgument(arg) == arg.type = "ObjectExpression"

\* the visitor throws: arg is undefined, buildRuntimeDefinition reads
\* `.default` of null, or overwrite refuses the range
EnterThrows(node, ms) ==
  /\ IsDefinitionCall(node)
  /\ \/ node.arguments = <<>>
     \/ /\ IsObjectArgument(node.arguments[1])
        /\ \/ BuildThrows(estreeToObject(node.arguments[1]))
           \/ OverwriteThrows(ms, OverwriteRange(node).start,
                                  OverwriteRange(node).end)

\* the MagicString after the visitor has run on the node
EnterEffect(node, ms) ==
  IF /\ IsDefinitionCall(node)
     /\ ~EnterThrows(node, ms)
     /\ IsObjectArgument(node.arguments[1])
  THEN Overwrite(ms, OverwriteRange(node).start, OverwriteRange(node).end,
         JSONstringify(buildRuntimeDefinition(estreeToObject(node.arguments[1]))))
  ELSE ms

\* lines 128-154: the visitor on the next call node of the walk
Enter ==
  /\ pc = "walk"
  /\ queue # <<>>
  /\ LET node == Head(queue)
     IN /\ s' = EnterEffect(node, s)
        /\ rejected' = IF EnterThrows(node, s)
                       THEN Append(rejected, node.start) ELSE rejected
        /\ entered' = Append(entered, node)
  /\ queue' = Tail(queue)
  /\ UNCHANGED <<id, source, pc, result, pass, input>>
  /\ UNCHANGED tframe

\* variant: the return does not wait for the walk to end
TransformReturnDuringWalk ==
  /\ pc = "walk"
  /\ result' = IF HasChanged(s)
               THEN [kind |-> "code", code |-> MsToString(s)]
               ELSE [kind |-> "source"]
  /\ pc' = "done"
  /\ UNCHANGED <<id, source, queue, s, rejected, entered, pass, input>>
  /\ UNCHANGED tframe

\* lines 158-168
TransformReturn ==
  /\ pc = "walk"
  /\ queue = <<>>
  /\ result' = IF HasChanged(s)
               THEN [kind |-> "code", code |-> MsToString(s)]
               ELSE [kind |-> "source"]
  /\ pc' = "done"
  /\ UNCHANGED <<id, source, queue, s, rejected, entered, pass, input>>
  /\ UNCHANGED tframe

\* the transform is run again, on the code of the first run
Reapply ==
  /\ pc = "done"
  /\ pass = 1
  /\ source' = CodeOf(result, source)
  /\ pass' = 2
  /\ pc' = "start"
  /\ queue' = <<>>
  /\ s' = NewMagicString(<<>>)
  /\ rejected' = <<>>
  /\ entered' = <<>>
  /\ result' = NoResult
  /\ UNCHANGED <<id, input>>
  /\ UNCHANGED tframe

TNext == TransformStart \/ Enter \/ TransformReturn \/ Reapply

SpecTransform == TInit /\ [][TNext]_vars

(***************************************************************************)
(* Reference notions the properties are stated with.  They follow the      *)
(* ECMAScript meaning of a literal, not the code of the transform.         *)
(***************************************************************************)
\* a call of the definition marker with an object literal as first argument
IsLiteralDefinitionCall(node) ==
  /\ node.type = "CallExpression"
  /\ node.callee.type = "Identifier"
  /\ node.callee.name = Marker
  /\ node.arguments # <<>>
  /\ node.arguments[1].type = "ObjectExpression"

\* the key a non-computed property is stored under
KeyName(key) == IF key.type = "Identifier" THEN key.name ELSE key.value.s

IsPlainKey(prop) ==
  /\ prop.type = "Property"
  /\ ~prop.computed
  /\ \/ prop.key.type = "Identifier"
     \/ prop.key.type = "Literal" /\ prop.key.value.t = "string"

\* literals, and object and array literals made of them with plain keys
RECURSIVE IsStatic(_)
IsStatic(node) ==
  CASE node.type = "Literal" -> TRUE
    [] node.type = "ObjectExpression" ->
         \A i \in 1..Len(node.properties) :
           IsPlainKey(node.properties[i]) /\ IsStatic(node.properties[i].value)
    [] node.type = "ArrayExpression" ->
         \A i \in 1..Len(node.elements) : IsStatic(node.elements[i])
    [] OTHER -> FALSE

\* the value a static literal evaluates to
RECURSIVE Eval(_)
RECURSIVE EvalProps(_)
EvalProps(props) ==
  IF props = <<>> THEN <<>>
  ELSE <<Entry(KeyName(Head(props).key), Eval(Head(props).value))>>
       \o EvalProps(Tail(props))

Eval(node) ==
  CASE node.type = "Literal" -> node.value
    [] node.type = "ObjectExpression" ->
         VObject(FromEntries(EvalProps(node.properties), <<>>))
    [] node.type = "ArrayExpression" ->
         VArray([i \in 1..Len(node.elements) |-> Eval(node.elements[i])])

\* deep equality of values: objects by key, arrays by position
RECURSIVE DeepEqual(_, _)
DeepEqual(a, b) ==
  /\ a.t = b.t
  /\ CASE a.t = "object" ->
            /\ Len(a.entries) = Len(b.entries)
            /\ \A i \in 1..Len(a.entries) :
                 /\ HasKey(b, a.entries[i].key)
                 /\ DeepEqual(a.entries[i].val, Get(b, a.entries[i].key))
       [] a.t = "array" ->
            /\ Len(a.elements) = Len(b.elements)
            /\ \A i \in 1..Len(a.elements) : DeepEqual(a.elements[i], b.elements[i])
       [] OTHER -> a = b

\* { k: { default } } for every option k that has a default
RECURSIVE DefaultsOnly(_)
DefaultsOnly(es) ==
  IF es = <<>> THEN <<>>
  ELSE IF Head(es).val.t = "object" /\ HasKey(Head(es).val, "default")
  THEN <<Entry(Head(es).key,
               VObject(<<Entry("default", Get(Head(es).val, "default"))>>))>>
       \o DefaultsOnly(Tail(es))
  ELSE DefaultsOnly(Tail(es))

IsStringArray(v) ==
  v.t = "array" /\ \A i \in 1..Len(v.elements) : v.elements[i].t = "string"

\* the reduced definition the spec asks for
ReducedDefinition(v) ==
  VObject(<<Entry("options", VObject(DefaultsOnly(Get(v, "options").entries))),
            Entry("globalOptions", Get(v, "globalOptions"))>>)

\* the statements of the text handed to the first run and of its output
InputBody == Parse(input).body
OutputBody == Parse(CodeOf(result, source)).body

FirstRunDone == pass = 1 /\ pc = "done" /\ FileRegexTest(id)

\* statement i of the input is defineParagraph(<static literal>) with an
\* `options` object and a `globalOptions` array of strings
IsFullDefinition(i) ==
  /\ IsLiteralDefinitionCall(InputBody[i].expression)
  /\ IsStatic(InputBody[i].expression.arguments[1])
  /\ Get(Eval(InputBody[i].expression.arguments[1]), "options").t = "object"
  /\ IsStringArray(Get(Eval(InputBody[i].expression.arguments[1]), "globalOptions"))

(***************************************************************************)
(* C1: for a .vue source with a call defineParagraph(<object literal>)     *)
(* whose literal holds an `options` object and a `globalOptions` array of  *)
(* string literals, the argument of the call in the output deep-equals     *)
(* { options: { k: { default } } for every option k with a default,        *)
(*   globalOptions: the same keys in the same order }.                     *)
(***************************************************************************)
C1_ArgumentIsReducedDefinition ==
  FirstRunDone =>
    \A i \in 1..Len(InputBody) :
      IsFullDefinition(i) =>
        /\ Len(OutputBody) = Len(InputBody)
        /\ IsLiteralDefinitionCall(OutputBody[i].expression)
        /\ IsStatic(OutputBody[i].expression.arguments[1])
        /\ DeepEqual(Eval(OutputBody[i].expression.arguments[1]),
                     ReducedDefinition(Eval(InputBody[i].expression.arguments[1])))

(***************************************************************************)
(* C2: re-applying the transform to its own output is a no-op: the second  *)
(* run returns the code the first run returned.  (The transform itself     *)
(* never raises: a throw inside the async visitor only rejects the promise *)
(* the visitor returned.)                                                  *)
(***************************************************************************)
C2_ReapplyIsNoOp ==
  (pass = 2 /\ pc = "done") => CodeOf(result, source) = source

(***************************************************************************)
(* C3: every option whose definition has a literal `default` is retained   *)
(* in the reduced definition as { default: <that literal> }, also for the  *)
(* empty string, 0 and false; an option is dropped only when it has no     *)
(* `default`.                                                              *)
(***************************************************************************)
IsPrimitive(v) == v.t \in {"string", "number", "boolean", "null"}

OptionsKept(definition, runtimeDefinition) ==
  LET options == Get(definition, "options")
      kept == Get(runtimeDefinition, "options")
  IN options.t = "object" =>
       /\ kept.t = "object"
       /\ \A i \in 1..Len(options.entries) :
            LET k == options.entries[i].key
                od == options.entries[i].val
            IN IF od.t = "object" /\ HasKey(od, "default")
                  /\ IsPrimitive(Get(od, "default"))
               THEN /\ HasKey(kept, k)
                    /\ Get(kept, k) = VObject(<<Entry("default", Get(od, "default"))>>)
               ELSE od.t = "object" /\ ~HasKey(od, "default") => ~HasKey(kept, k)

C3_EveryLiteralDefaultRetained ==
  \A i \in 1..Len(entered) :
    IsLiteralDefinitionCall(entered[i]) =>
      OptionsKept(estreeToObject(entered[i].arguments[1]),
                  buildRuntimeDefinition(estreeToObject(entered[i].arguments[1])))

(***************************************************************************)
(* C4: the transform changes only the ranges [start, end) of the first     *)
(* argument of the rewritten defineParagraph calls: every lexeme of the    *)
(* source outside those ranges is in the output, unchanged and in the same *)
(* order, however many calls were rewritten.                               *)
(***************************************************************************)
RECURSIVE ShiftBefore(_, _)
\* by how much the overwrites ending at or before p move what follows them
ShiftBefore(edits, p) ==
  IF edits = <<>> THEN 0
  ELSE (IF Head(edits).end <= p
        THEN Len(Head(edits).content) - (Head(edits).end - Head(edits).start)
        ELSE 0)
       + ShiftBefore(Tail(edits), p)

InsideAnEdit(edits, p) ==
  \E i \in 1..Len(edits) : edits[i].start <= p /\ p < edits[i].end

IsFirstArgumentRange(text, e) ==
  \E i \in 1..Len(CallsIn(Parse(text))) :
    LET n == CallsIn(Parse(text))[i]
    IN /\ IsLiteralDefinitionCall(n)
       /\ n.arguments[1].start = e.start
       /\ n.arguments[1].end = e.end

C4_OnlyArgumentRangesChange ==
  pc = "done" =>
    LET out == CodeOf(result, source)
    IN /\ \A i \in 1..Len(s.edits) : IsFirstArgumentRange(source, s.edits[i])
       /\ Len(out) = Len(source) + ShiftBefore(s.edits, Len(source))
       /\ \A p \in 0..(Len(source) - 1) :
            ~InsideAnEdit(s.edits, p) =>
              out[p + ShiftBefore(s.edits, p) + 1] = source[p + 1]

\* two calls of one file have been rewritten
C4_Witness ==
  /\ pc = "done"
  /\ result.kind = "code"
  /\ Len(s.edits) >= 2
  /\ Len(result.code) # Len(source)

(***************************************************************************)
(* C5: when no defineParagraph call of the file has an object literal as   *)
(* first argument, when the file does not contain the marker, or when it   *)
(* is no .vue file, the transform returns the source unmodified and makes  *)
(* no overwrite.                                                           *)
(***************************************************************************)
HasLiteralDefinitionCall(text) ==
  \E i \in 1..Len(CallsIn(Parse(text))) :
    IsLiteralDefinitionCall(CallsIn(Parse(text))[i])

C5_NothingToRewrite ==
  (/\ pc = "done"
   /\ \/ ~FileRegexTest(id)
      \/ ~Includes(source, Marker)
      \/ ~HasLiteralDefinitionCall(source)) =>
    /\ result.kind # "code"
    /\ CodeOf(result, source) = source
    /\ s.edits = <<>>

\* a .vue file whose defineParagraph calls were entered and left alone
C5_Witness ==
  /\ pc = "done"
  /\ FileRegexTest(id)
  /\ ~HasLiteralDefinitionCall(source)
  /\ \E i \in 1..Len(entered) :
       entered[i].callee.type = "Identifier" /\ entered[i].callee.name = Marker
  /\ \E i \in 1..Len(entered) : entered[i].callee.type = "MemberExpression"
  /\ result.kind = "source"

(***************************************************************************)
(* C6: converting an object literal keeps a property under its key name    *)
(* when the key is an identifier or a string literal and skips a property  *)
(* with a computed key, at every nesting depth.                            *)
(***************************************************************************)
IsConvertible(prop) ==
  prop.type = "Property" /\ prop.value.type \in {"Literal", "ObjectExpression"}

RECURSIVE ConvertByKeyRule(_)
RECURSIVE EntriesByKeyRule(_)
EntriesByKeyRule(props) ==
  IF props = <<>> THEN <<>>
  ELSE (IF IsConvertible(Head(props)) /\ IsPlainKey(Head(props))
        THEN <<Entry(KeyName(Head(props).key),
                     IF Head(props).value.type = "Literal"
                     THEN Head(props).value.value
                     ELSE ConvertByKeyRule(Head(props).value))>>
        ELSE <<>>)
       \o EntriesByKeyRule(Tail(props))

ConvertByKeyRule(expression) ==
  VObject(FromEntries(EntriesByKeyRule(expression.properties), <<>>))

C6_KeysKeptOrSkipped ==
  \A i \in 1..Len(entered) :
    IsLiteralDefinitionCall(entered[i]) =>
      estreeToObject(entered[i].arguments[1])
        = ConvertByKeyRule(entered[i].arguments[1])

(***************************************************************************)
(* C7: a property whose value is an array literal or another non-literal   *)
(* expression (identifier, call, template string), and a spread element,   *)
(* is dropped from the converted object without an error; every sibling    *)
(* with a literal or object-literal value is converted as it is without    *)
(* the dropped properties, an identifier-keyed one under its name.         *)
(***************************************************************************)
IsDropped(prop) == ~IsConvertible(prop)

WithoutDropped(expression) ==
  [expression EXCEPT !.properties = SelectSeq(expression.properties, IsConvertible)]

RECURSIVE DropsQuietly(_)
DropsQuietly(expression) ==
  LET converted == estreeToObject(expression)
      props == expression.properties
      named(i) == props[i].type = "Property" /\ ~props[i].computed
                  /\ props[i].key.type = "Identifier"
  IN /\ converted = estreeToObject(WithoutDropped(expression))
     /\ \A i \in 1..Len(props) :
          /\ (IsConvertible(props[i]) /\ named(i)) =>
               /\ HasKey(converted, props[i].key.name)
               /\ props[i].value.type = "Literal" =>
                    \E j \in i..Len(props) :
                      /\ IsConvertible(props[j]) /\ named(j)
                      /\ props[j].key.name = props[i].key.name
                      /\ props[j].value.type = "Literal"
                      /\ Get(converted, props[i].key.name) = props[j].value.value
          /\ (IsDropped(props[i]) /\ named(i)
              /\ ~\E j \in 1..Len(props) :
                    /\ IsConvertible(props[j])
                    /\ props[j].key.type = "Identifier"
                    /\ props[j].key.name = props[i].key.name) =>
               ~HasKey(converted, props[i].key.name)
          /\ (IsConvertible(props[i]) /\ props[i].value.type = "ObjectExpression") =>
               DropsQuietly(props[i].value)

RECURSIVE HasDropped(_)
HasDropped(expression) ==
  \E i \in 1..Len(expression.properties) :
    \/ IsDropped(expression.properties[i])
    \/ /\ expression.properties[i].value.type = "ObjectExpression"
       /\ HasDropped(expression.properties[i].value)

\* `options: { k: null }`: reading `.default` of null throws after the conversion
HasNullOption(expression) ==
  \E i \in 1..Len(expression.properties) :
    LET prop == expression.properties[i]
    IN /\ IsConvertible(prop)
       /\ prop.key.type = "Identifier" /\ prop.key.name = "options"
       /\ prop.value.type = "ObjectExpression"
       /\ \E j \in 1..Len(prop.value.properties) :
            LET q == prop.value.properties[j]
            IN /\ IsConvertible(q) /\ q.key.type = "Identifier"
               /\ q.value.type = "Literal" /\ q.value.value.t = "null"

\* the call lies inside the argument of a call entered before it
IsNestedInEntered(i) ==
  \E j \in 1..(i - 1) :
    /\ IsLiteralDefinitionCall(entered[j])
    /\ entered[j].arguments[1].start <= entered[i].start
    /\ entered[i].end <= entered[j].arguments[1].end

IsRejected(node) == \E i \in 1..Len(rejected) : rejected[i] = node.start

IsOverwritten(node) ==
  \E i \in 1..Len(s.edits) :
    /\ s.edits[i].start = node.arguments[1].start
    /\ s.edits[i].end = node.arguments[1].end

TeaserFile == "components/Paragraph/Teaser.vue"
NotesFile == "components/Paragraph/notes.md"
PageFile == "pages/index.vue"
StylesFile == "nuxt-paragraphs-builder/css/index.css"
Paths == {TeaserFile, NotesFile, PageFile, StylesFile}

Absent == "<absent>"
\* what a save can write; the second is the first one reformatted
Contents == {"teaser: size=medium", "teaser:  size=medium", "teaser: size=large"}

NoDefinition == "<none>"
\* the definition the extractor reads out of a file content
Extract(content) ==
  CASE content = "teaser: size=medium" -> "{size: medium}"
    [] content = "teaser:  size=medium" -> "{size: medium}"
    [] content = "teaser: size=large" -> "{size: large}"
    [] OTHER -> NoDefinition

POSSIBLE_EXTENSIONS == {".js", ".ts", ".vue", ".mjs"}

\* extname(filePath)
Extname(path) ==
  CASE path = TeaserFile -> ".vue"
    [] path = NotesFile -> ".md"
    [] path = PageFile -> ".vue"
    [] path = StylesFile -> ".css"

\* resolveFiles(srcDir, moduleOptions.pattern): the files on disk that match
\* 'components/Paragraph/**/*.{js,ts,vue}'
ResolveFiles(files) == {path \in {TeaserFile} : files[path] # Absent}

\* appliesStyles(path)
AppliesStyles(path) == path = StylesFile

\* an option of moduleOptions, left out or given
Undefined == [defined |-> FALSE]
Defined(value) == [defined |-> TRUE, value |-> value]

\* [...(option || [])]
OrEmpty(option) == IF option.defined THEN option.value ELSE <<>>

\* names.includes(name)
ArrayIncludes(names, name) == \E i \in 1..Len(names) : names[i] = name

\* filter(onlyUnique): the first occurrence of every element
OnlyUnique(names) ==
  SelectSeq([i \in 1..Len(names) |->
               IF \E j \in 1..(i - 1) : names[j] = names[i]
               THEN "<dup>" ELSE names[i]],
            LAMBDA n : n # "<dup>")

\* variant: the names with 'global' pushed, not filtered
getChunkNamesUnfiltered(options) ==
  LET chunkNames == OrEmpty(options.chunkNames)
  IN IF ArrayIncludes(chunkNames, "global")
     THEN chunkNames ELSE Append(chunkNames, "global")

getChunkNames(options) ==
  LET chunkNames == OrEmpty(options.chunkNames)
  IN OnlyUnique(IF ArrayIncludes(chunkNames, "global")
                THEN chunkNames ELSE Append(chunkNames, "global"))

getFieldListTypes(options) ==
  LET types == OrEmpty(options.fieldListTypes)
  IN OnlyUnique(IF ArrayIncludes(types, "default")
                THEN types ELSE Append(types, "default"))

\* the templates setup registers with addTemplate, with their option tag
StylesTemplate ==
  [filename |-> "paragraphs-builder/edit.css", options |-> "paragraphsBuilderStyle"]
DefinitionsTemplate ==
  [filename |-> "paragraphs-builder/definitions.ts", options |-> "paragraphsBuilder"]

\* variant: a chunk template for every chunk name, 'global' too
ChunkTemplatesForAll(options) ==
  [i \in 1..Len(getChunkNames(options)) |->
     [filename |-> "paragraphs-builder/chunk-" \o getChunkNames(options)[i] \o ".ts",
      options |-> "paragraphsBuilder"]]

\* getChunkNames().forEach: a template for every chunk name but 'global'
ChunkTemplates(options) ==
  LET names == SelectSeq(getChunkNames(options), LAMBDA n : n # "global")
  IN [i \in 1..Len(names) |->
        [filename |-> "paragraphs-builder/chunk-" \o names[i] \o ".ts",
         options |-> "paragraphsBuilder"]]

\* the addTemplate calls of setup, in order
AddedTemplates(options) ==
  << StylesTemplate,
     DefinitionsTemplate,
     [filename |-> "paragraphs-builder/generated-types.ts",
      options |-> "paragraphsBuilder"],
     [filename |-> "paragraphs-builder/default-global-options.ts",
      options |-> "paragraphsBuilder"] >>
  \o ChunkTemplates(options)
  \o << [filename |-> "paragraphs-builder/imports.ts",
         options |-> "paragraphsBuilder"] >>

\* moduleOptions.chunkNames of the dev session of Part II
ChunkNamesOption == <<"rare", "global", "rare">>

WatchModuleOptions ==
  [chunkNames |-> Defined(ChunkNamesOption), fieldListTypes |-> Undefined]

Templates ==
  {AddedTemplates(WatchModuleOptions)[i] :
     i \in 1..Len(AddedTemplates(WatchModuleOptions))}

\* variant: a filter that lets only the definitions template through
IsDefinitionsTemplate(template) ==
  template.filename = "paragraphs-builder/definitions.ts"

\* the two filters handed to updateTemplates
IsStyleTemplate(template) == template.options = "paragraphsBuilderStyle"
IsBuilderTemplate(template) == template.options = "paragraphsBuilder"

\* a handler call: where it stands and what it has done so far
NewHandler(path, overlaps) ==
  [path |-> path,
   pc |-> IF AppliesStyles(path) THEN "updateStyles" ELSE "applies",
   filePath |-> "",
   started |-> 0,
   read |-> "",
   hasChanged |-> "unset",
   regenerated |-> {},
   generatedFrom |-> {},
   reloaded |-> {},
   overlaps |-> overlaps]

Running(h) == handlers[h].pc \notin {"done", "failed"}

WInit ==
  /\ disk = [path \in Paths |->
               IF path = TeaserFile THEN "teaser: size=medium" ELSE "text"]
  /\ registry = [path \in {TeaserFile} |-> Extract("teaser: size=medium")]
  /\ artifacts = [f \in {tpl.filename : tpl \in Templates} |->
                    [path \in {TeaserFile} |-> Extract("teaser: size=medium")]]
  /\ handlers = <<>>
  /\ TransformOff
  /\ SetupOff
  /\ RuntimeOff
  /\ AnimationOff
  /\ ProviderOff
  /\ ObserverOff

\* the watcher reports a file that was saved or removed: nuxt calls the
\* builder:watch hook, which runs up to its first await (lines 297-315)
Watch(path, content) ==
  /\ Len(handlers) < MaxNotifications
  /\ disk' = [disk EXCEPT ![path] = content]
  /\ handlers' = Append(handlers,
       NewHandler(path, \E h \in 1..Len(handlers) :
                          handlers[h].path = path /\ Running(h)))
  /\ UNCHANGED <<registry, artifacts>>
  /\ UNCHANGED wframe

\* lines 299-305: updateTemplates with the style filter
UpdateStyles(h) ==
  /\ handlers[h].pc = "updateStyles"
  /\ artifacts' = [f \in DOMAIN artifacts |->
       IF \E tpl \in Templates : tpl.filename = f /\ IsStyleTemplate(tpl)
       THEN registry ELSE artifacts[f]]
  /\ handlers' = [handlers EXCEPT ![h] =
       [@ EXCEPT !.pc = "reloadStyles",
                 !.regenerated = @ \cup {tpl.filename : tpl \in
                                          {x \in Templates : IsStyleTemplate(x)}}]]
  /\ UNCHANGED <<disk, registry>>
  /\ UNCHANGED wframe

\* lines 306-313: reload the modules of the styles template, go on to applies
ReloadStyles(h) ==
  /\ handlers[h].pc = "reloadStyles"
  /\ handlers' = [handlers EXCEPT ![h] =
       [@ EXCEPT !.pc = "applies",
                 !.reloaded = @ \cup {StylesTemplate.filename}]]
  /\ UNCHANGED <<disk, registry, artifacts>>
  /\ UNCHANGED wframe

\* variant: applies without the look-up among the files the patterns match
AppliesResultByExtension(path, files) ==
  IF Extname(path) \notin POSSIBLE_EXTENSIONS THEN "" ELSE path

\* applies(path), lines 274-288, as it resolves
AppliesResult(path, files) ==
  IF Extname(path) \notin POSSIBLE_EXTENSIONS THEN ""
  ELSE IF path \in ResolveFiles(files) THEN path ELSE ""

\* the calls of extractor.handleFile made so far
HandleFileCalls == Cardinality({g \in 1..Len(handlers) : handlers[g].started > 0})

\* lines 315-320: applies resolves, and the handler returns or calls
\* extractor.handleFile
Applies(h) ==
  /\ handlers[h].pc = "applies"
  /\ LET filePath == AppliesResult(handlers[h].path, disk)
     IN handlers' = [handlers EXCEPT ![h] =
          [@ EXCEPT !.filePath = filePath,
                    !.started = IF filePath = "" THEN 0 ELSE 1 + HandleFileCalls,
                    !.pc = IF filePath = "" THEN "done" ELSE "handleFile"]]
  /\ UNCHANGED <<disk, registry, artifacts>>
  /\ UNCHANGED wframe

\* extractor.handleFile, first half: the file is read
HandleFileRead(h) ==
  /\ handlers[h].pc = "handleFile"
  /\ handlers' = [handlers EXCEPT ![h] =
       [@ EXCEPT !.read = disk[handlers[h].filePath],
                 !.pc = IF disk[handlers[h].filePath] = Absent
                        THEN "failed" ELSE "extract"]]
  /\ UNCHANGED <<disk, registry, artifacts>>
  /\ UNCHANGED wframe

\* value-based comparison with the entry the registry holds
DefinitionChanged(old, new) == old # new

\* variant: the handler goes on whatever handleFile reported
NeverNothingToDo(hasChanged) == FALSE

\* line 323: if (!hasChanged) return
NothingToDo(hasChanged) == ~hasChanged

\* extractor.handleFile, second half: extract, compare, upsert, and the
\* handler's test of the result (lines 320-325)
HandleFileUpsert(h) ==
  /\ handlers[h].pc = "extract"
  /\ LET filePath == handlers[h].filePath
         definition == Extract(handlers[h].read)
         existing == IF filePath \in DOMAIN registry
                     THEN registry[filePath] ELSE NoDefinition
         hasChanged == DefinitionChanged(existing, definition)
     IN /\ registry' = IF hasChanged
                       THEN [path \in DOMAIN registry \cup {filePath} |->
                               IF path = filePath THEN definition ELSE registry[path]]
                       ELSE registry
        /\ handlers' = [handlers EXCEPT ![h] =
             [@ EXCEPT !.hasChanged = IF hasChanged THEN "true" ELSE "false",
                       !.pc = IF NothingToDo(hasChanged)
                              THEN "done" ELSE "updateTemplates"]]
  /\ UNCHANGED <<disk, artifacts>>
  /\ UNCHANGED wframe

\* variant: the pass generates the definitions template in one step and the
\* other templates in a later one
UpdateTemplatesInTwoSteps(h) ==
  /\ handlers[h].pc = "updateTemplates"
  /\ LET first == "paragraphs-builder/definitions.ts" \notin handlers[h].regenerated
         now == {tpl.filename : tpl \in
                  {x \in Templates :
                     /\ IsBuilderTemplate(x)
                     /\ (x.filename = "paragraphs-builder/definitions.ts") = first}}
     IN /\ artifacts' = [f \in DOMAIN artifacts |->
             IF f \in now THEN registry ELSE artifacts[f]]
        /\ handlers' = [handlers EXCEPT ![h] =
             [@ EXCEPT !.pc = IF first THEN "updateTemplates" ELSE "reloadModules",
                       !.regenerated = @ \cup now,
                       !.generatedFrom = @ \cup {registry}]]
  /\ UNCHANGED <<disk, registry>>
  /\ UNCHANGED wframe

\* lines 327-331: updateTemplates with the paragraphsBuilder filter; the
\* getContents callbacks of lines 194-267 are synchronous and read the
\* extractor, and one pass calls them all before it yields
UpdateTemplates(h) ==
  /\ handlers[h].pc = "updateTemplates"
  /\ artifacts' = [f \in DOMAIN artifacts |->
       IF \E tpl \in Templates : tpl.filename = f /\ IsBuilderTemplate(tpl)
       THEN registry ELSE artifacts[f]]
  /\ handlers' = [handlers EXCEPT ![h] =
       [@ EXCEPT !.pc = "reloadModules",
                 !.generatedFrom = @ \cup {registry},
                 !.regenerated = @ \cup {tpl.filename : tpl \in
                                          {x \in Templates : IsBuilderTemplate(x)}}]]
  /\ UNCHANGED <<disk, registry>>
  /\ UNCHANGED wframe

\* lines 333-341: reload the modules of the definitions template
ReloadModules(h) ==
  /\ handlers[h].pc = "reloadModules"
  /\ handlers' = [handlers EXCEPT ![h] =
       [@ EXCEPT !.pc = "done",
                 !.reloaded = @ \cup {DefinitionsTemplate.filename}]]
  /\ UNCHANGED <<disk, registry, artifacts>>
  /\ UNCHANGED wframe

WNext ==
  \/ \E content \in Contents \cup {Absent} : Watch(TeaserFile, content)
  \/ \E path \in {NotesFile, PageFile, StylesFile} : Watch(path, "text")
  \/ \E h \in 1..Len(handlers) : UpdateStyles(h)
  \/ \E h \in 1..Len(handlers) : ReloadStyles(h)
  \/ \E h \in 1..Len(handlers) : Applies(h)
  \/ \E h \in 1..Len(handlers) : HandleFileRead(h)
  \/ \E h \in 1..Len(handlers) : HandleFileUpsert(h)
  \/ \E h \in 1..Len(handlers) : UpdateTemplates(h)
  \/ \E h \in 1..Len(handlers) : ReloadModules(h)

SpecWatch == WInit /\ [][WNext]_vars

(***************************************************************************)
(* Properties of the builder:watch handler                                 *)
(***************************************************************************)
\* the artifacts the paragraphsBuilder tag stands for, by name
DefinitionsArtifact == "paragraphs-builder/definitions.ts"
BuilderArtifacts ==
  { DefinitionsArtifact,
    "paragraphs-builder/generated-types.ts",
    "paragraphs-builder/default-global-options.ts",
    "paragraphs-builder/chunk-rare.ts",
    "paragraphs-builder/imports.ts" }

\* the handler calls of notifications on the matched file
MatchedHandlers == {h \in 1..Len(handlers) : handlers[h].path = TeaserFile}

\* C8: a handler call on a matched file for which handleFile reported
\* changed = false ends there: it has regenerated no paragraphsBuilder
\* template and reloaded no module of the definitions artifact.
C8_UnchangedFileRegeneratesNothing ==
  \A h \in MatchedHandlers :
    handlers[h].hasChanged = "false" =>
      /\ handlers[h].pc = "done"
      /\ handlers[h].regenerated \cap BuilderArtifacts = {}
      /\ DefinitionsArtifact \notin handlers[h].reloaded

\* a file re-saved with another layout of the same definition, its handler
\* call finished
C8_Witness ==
  \E h \in MatchedHandlers :
    /\ handlers[h].hasChanged = "false"
    /\ handlers[h].pc = "done"
    /\ handlers[h].read = "teaser:  size=medium"
    /\ handlers[h].filePath = TeaserFile

\* C9: a handler call on a matched file for which handleFile reported
\* changed = true regenerates every paragraphsBuilder template (definitions,
\* generated types, default global options, every chunk manifest, imports), and
\* the modules of the definitions artifact are reloaded only once all of them
\* have been regenerated.
C9_ChangedFileRegeneratesThenReloads ==
  \A h \in MatchedHandlers :
    handlers[h].hasChanged = "true" =>
      /\ handlers[h].pc \in {"updateTemplates", "reloadModules", "done"}
      /\ handlers[h].pc # "updateTemplates" =>
           BuilderArtifacts \subseteq handlers[h].regenerated
      /\ DefinitionsArtifact \in handlers[h].reloaded =>
           BuilderArtifacts \subseteq handlers[h].regenerated
      /\ handlers[h].pc = "done" => DefinitionsArtifact \in handlers[h].reloaded

\* a changed definition was taken up and the whole call has finished
C9_Witness ==
  \E h \in MatchedHandlers :
    /\ handlers[h].hasChanged = "true"
    /\ handlers[h].pc = "done"
    /\ handlers[h].read = "teaser: size=large"
    /\ DefinitionsArtifact \in handlers[h].reloaded

\* a notification for the matched file arrived while an earlier call for it
\* was still running, and every call has run to its end
OverlappingCallsFinished ==
  /\ \E h \in MatchedHandlers : handlers[h].overlaps
  /\ \A h \in 1..Len(handlers) : handlers[h].pc = "done"
  /\ disk[TeaserFile] # Absent

\* C10: once overlapping handler calls for one file have all finished, the
\* Registry entry of the file and the regenerated artifacts reflect the
\* content the file has now, never an older one.
C10_LatestContentWins ==
  OverlappingCallsFinished =>
    /\ registry[TeaserFile] = Extract(disk[TeaserFile])
    /\ \A f \in BuilderArtifacts :
         artifacts[f][TeaserFile] = Extract(disk[TeaserFile])

\* extractor.handleFile was called for this notification and has not resolved
HandleFileInProgress(h) == handlers[h].pc \in {"handleFile", "extract"}

\* C11: Registry upserts are serialized: at most one extractor.handleFile call
\* is in progress at any time, and the calls start in the order in which the
\* notifications arrived.
C11_UpsertsSerialized ==
  /\ \A g, h \in 1..Len(handlers) :
       (HandleFileInProgress(g) /\ HandleFileInProgress(h)) => g = h
  /\ \A g, h \in 1..Len(handlers) :
       (g < h /\ handlers[g].started > 0 /\ handlers[h].started > 0) =>
         handlers[g].started < handlers[h].started

DeletionHandled ==
  /\ disk[TeaserFile] = Absent
  /\ MatchedHandlers # {}
  /\ \A h \in 1..Len(handlers) : ~Running(h)

\* C13: after the notification for a file that had a Registry entry and was
\* deleted (or matches the patterns no more), the Registry holds no entry for
\* the file and the paragraphsBuilder artifacts are generated without it.
C13_DeletedFileLeavesRegistry ==
  DeletionHandled =>
    /\ TeaserFile \notin DOMAIN registry
    /\ \A f \in BuilderArtifacts : TeaserFile \notin DOMAIN artifacts[f]

\* the paths with one of the extensions .js, .ts, .vue, .mjs
HandledExtension == {TeaserFile, PageFile}

\* the files the configured patterns match at present
MatchedNow == IF disk[TeaserFile] = Absent THEN {} ELSE {TeaserFile}

\* the handler call h learns in this step what applies resolved to
AppliesResolves(h) ==
  /\ handlers[h].pc = "applies"
  /\ handlers'[h].pc # "applies"

\* C14: a notification for a path whose extension is none of .js, .ts, .vue,
\* .mjs, or that is not among the files the patterns match when applies looks,
\* never calls extractor.handleFile and never regenerates a paragraphsBuilder
\* template.
C14_UnmatchedPathIsIgnored ==
  /\ [][\A h \in 1..Len(handlers) :
          ( /\ AppliesResolves(h)
            /\ \/ handlers[h].path \notin HandledExtension
               \/ handlers[h].path \notin MatchedNow )
          => /\ handlers'[h].pc = "done"
             /\ handlers'[h].started = 0]_vars
  /\ [](\A h \in 1..Len(handlers) :
          (handlers[h].pc = "done" /\ handlers[h].started = 0) =>
            /\ handlers[h].read = ""
            /\ handlers[h].hasChanged = "unset"
            /\ handlers[h].regenerated \cap BuilderArtifacts = {})

\* three ignored notifications: a wrong extension, a .vue file outside the
\* patterns, and a matched file that has been deleted
C14_Witness ==
  \E g, h, k \in 1..Len(handlers) :
    /\ handlers[g].path = NotesFile
    /\ handlers[h].path = PageFile
    /\ handlers[k].path = TeaserFile
    /\ disk[TeaserFile] = Absent
    /\ \A i \in {g, h, k} : handlers[i].pc = "done" /\ handlers[i].started = 0

(***************************************************************************)
(*                                Part III                                 *)
(* setup: the enumerations handed to the generators and the chunk          *)
(* templates, for every configuration of the two lists.                    *)
(***************************************************************************)
ChunkNamePool == {"global", "rare", "hero"}
FieldListTypePool == {"default", "list"}

\* a list option: left out, empty, with duplicates, with the implicit member
ListOptions(names) ==
  {Undefined} \cup {Defined(list) : list \in SeqsUpTo(names, MaxNames)}

SInit ==
  /\ moduleOptions \in
       {[chunkNames |-> c, fieldListTypes |-> f] :
          c \in ListOptions(ChunkNamePool), f \in ListOptions(FieldListTypePool)}
  /\ templates = <<>>
  /\ generated = {}
  /\ TransformOff
  /\ WatchOff
  /\ RuntimeOff
  /\ AnimationOff
  /\ ProviderOff
  /\ ObserverOff

\* lines 167-267: the addTemplate calls
Setup ==
  /\ templates = <<>>
  /\ templates' = AddedTemplates(moduleOptions)
  /\ UNCHANGED <<moduleOptions, generated>>
  /\ UNCHANGED sframe

Called(generator) == \E call \in generated : call.generator = generator

\* lines 211-217: getContents of generated-types.ts
GenerateTypes ==
  /\ templates # <<>>
  /\ ~Called("generateTypesTemplate")
  /\ generated' = generated \cup
       {[generator |-> "generateTypesTemplate",
         chunkNames |-> getChunkNames(moduleOptions),
         fieldListTypes |-> getFieldListTypes(moduleOptions)]}
  /\ UNCHANGED <<moduleOptions, templates>>
  /\ UNCHANGED sframe

\* lines 261-263: getContents of imports.ts
GenerateImports ==
  /\ templates # <<>>
  /\ ~Called("generateImportsTemplate")
  /\ generated' = generated \cup
       {[generator |-> "generateImportsTemplate",
         chunkNames |-> getChunkNames(moduleOptions)]}
  /\ UNCHANGED <<moduleOptions, templates>>
  /\ UNCHANGED sframe

SNext == Setup \/ GenerateTypes \/ GenerateImports

SpecSetup == SInit /\ [][SNext]_vars

(***************************************************************************)
(* Properties of setup                                                     *)
(***************************************************************************)
Members(list) == {list[i] : i \in 1..Len(list)}

FirstIndex(list, name) ==
  CHOOSE k \in 1..Len(list) :
    list[k] = name /\ \A m \in 1..(k - 1) : list[m] # name

\* names holds every configured name and the implicit member, each once, the
\* configured names in the order of their first appearance
IsEnumerationOf(configured, implicit, names) ==
  /\ \A i, j \in 1..Len(names) : names[i] = names[j] => i = j
  /\ Members(names) = Members(configured) \cup {implicit}
  /\ \A i, j \in 1..Len(names) :
       ( /\ i < j
         /\ names[i] \in Members(configured)
         /\ names[j] \in Members(configured) )
       => FirstIndex(configured, names[i]) < FirstIndex(configured, names[j])

ConfiguredChunkNames ==
  IF moduleOptions.chunkNames.defined THEN moduleOptions.chunkNames.value ELSE <<>>

ConfiguredFieldListTypes ==
  IF moduleOptions.fieldListTypes.defined
  THEN moduleOptions.fieldListTypes.value ELSE <<>>

\* C15: the chunk names and the field list types handed to a generator hold
\* every configured name exactly once, in the order of first appearance, and
\* the implicit member ('global', 'default') exactly once, whatever the
\* configuration: left out, empty, with duplicates, listing the implicit member.
C15_EnumerationsDedupedWithImplicit ==
  \A call \in generated :
    /\ IsEnumerationOf(ConfiguredChunkNames, "global", call.chunkNames)
    /\ call.generator = "generateTypesTemplate" =>
         IsEnumerationOf(ConfiguredFieldListTypes, "default", call.fieldListTypes)

\* chunk names with a duplicate and 'global' in the middle, field list types
\* configured empty, both generators called
C15_Witness ==
  /\ moduleOptions.chunkNames = Defined(<<"rare", "global", "rare">>)
  /\ moduleOptions.fieldListTypes = Defined(<<>>)
  /\ Called("generateTypesTemplate")
  /\ Called("generateImportsTemplate")
  /\ \E call \in generated : call.chunkNames = <<"rare", "global">>

ChunkFilename(name) == "paragraphs-builder/chunk-" \o name \o ".ts"

Registrations(filename) ==
  Cardinality({i \in 1..Len(templates) : templates[i].filename = filename})

\* C16: setup registers exactly one chunk manifest chunk-<name> for every
\* distinct configured chunk name other than 'global', and none for 'global'.
C16_OneChunkTemplatePerName ==
  templates # <<>> =>
    /\ \A name \in Members(ConfiguredChunkNames) \ {"global"} :
         Registrations(ChunkFilename(name)) = 1
    /\ \A name \in ChunkNamePool \ (Members(ConfiguredChunkNames) \ {"global"}) :
         Registrations(ChunkFilename(name)) = 0

\* two names, one of them twice, and 'global' configured as well
C16_Witness ==
  /\ moduleOptions.chunkNames = Defined(<<"hero", "global", "hero">>)
  /\ Registrations(ChunkFilename("hero")) = 1
  /\ Registrations(ChunkFilename("global")) = 0
  /\ Len(templates) = 6

(***************************************************************************)
(*                                Part IV                                  *)
(* defineParagraph at runtime: the default options, the variant of the     *)
(* returned options and what reading them yields while the edit state and  *)
(* the persisted options change.                                           *)
(***************************************************************************)
\* {}
EmptyObject == [key \in {} |-> ""]

\* { ...a, ...b }
Spread(a, b) ==
  [key \in DOMAIN a \cup DOMAIN b |-> IF key \in DOMAIN b THEN b[key] ELSE a[key]]

\* the generated defaults of the global options: 'spacing' has none
globalOptionsDefaults == [key \in {"theme"} |-> "light"]

\* the keys for...in visits on an array: its indices, as strings
IndexKeys == <<"0", "1", "2">>
ForInArray(array) == {IndexKeys[i] : i \in 1..Len(array)}

\* the keys the loop of lines 103-108 visits
GlobalOptionKeys(globalOptions) == ForInArray(globalOptions)

\* lines 93-109
DefaultOptions(cfg) ==
  LET options == IF cfg.options.defined THEN cfg.options.value ELSE EmptyObject
      own == [key \in {k \in DOMAIN options : "default" \in DOMAIN options[k]} |->
                options[key].default]
      keys == IF cfg.globalOptions.defined
              THEN GlobalOptionKeys(cfg.globalOptions.value) ELSE {}
      inherited == [key \in keys \cap DOMAIN globalOptionsDefaults |->
                      globalOptionsDefaults[key]]
  IN Spread(own, inherited)

\* variant: the edit variant whenever an edit context is injected
UseEditVariantWithoutUuid(ctx, uuid) == ctx.defined

\* line 153: if (editContext && uuid)
UseEditVariant(ctx, uuid) == ctx.defined /\ uuid # ""

\* lines 89-188
defineParagraph(cfg, item, ctx, lib) ==
  LET defaultOptions == DefaultOptions(cfg)
      uuid == IF item.defined THEN item.value.uuid ELSE ""
  IN IF lib.defined
     THEN [uuid |-> uuid, options |-> [variant |-> "library"]]
     ELSE IF UseEditVariant(ctx, uuid)
     THEN [uuid |-> uuid,
           options |-> [variant |-> "edit", uuid |-> uuid,
                        defaultOptions |-> defaultOptions]]
     ELSE [uuid |-> uuid,
           options |-> [variant |-> "normal", defaultOptions |-> defaultOptions]]

\* paragraphItem?.value.paragraphsBuilderOptions, spread
PersistedOptions ==
  IF paragraphItem.defined /\ paragraphItem.value.paragraphsBuilderOptions.defined
  THEN paragraphItem.value.paragraphsBuilderOptions.value
  ELSE EmptyObject

\* editContext.mutatedOptions.value[uuid]?.paragraph_builder_data || {}
OverrideOptions(uuid) ==
  LET mutatedOptions == editContext.value.mutatedOptions
  IN IF uuid \in DOMAIN mutatedOptions
        /\ mutatedOptions[uuid].paragraph_builder_data.defined
     THEN mutatedOptions[uuid].paragraph_builder_data.value
     ELSE EmptyObject

\* variant: the live override below the persisted options
EditOptionsPersistedLast(options) ==
  Spread(Spread(options.defaultOptions, OverrideOptions(options.uuid)),
         PersistedOptions)

\* lines 154-162: the computed of the edit variant
EditOptions(options) ==
  Spread(Spread(options.defaultOptions, PersistedOptions),
         OverrideOptions(options.uuid))

\* options.value of the returned paragraph, in the present state
OptionsValue(options) ==
  CASE options.variant = "library" -> fromLibraryOptions.value
    [] options.variant = "edit" -> EditOptions(options)
    [] options.variant = "normal" ->
         Spread(options.defaultOptions, PersistedOptions)

\* the definitions a component calls defineParagraph with
ConfigPool ==
  {[options |-> o, globalOptions |-> g] :
     o \in {Undefined,
            Defined([key \in {"size"} |-> [type |-> "radios"]]),
            Defined([key \in {"size"} |-> [type |-> "radios", default |-> "medium"]])},
     g \in {Undefined, Defined(<<>>), Defined(<<"theme">>),
            Defined(<<"spacing", "theme">>)}}

\* paragraphItem.value.paragraphsBuilderOptions
PersistedPool ==
  {Undefined, Defined(EmptyObject),
   Defined([key \in {"size"} |-> "large"]),
   Defined([key \in {"theme"} |-> "dark"])}

\* editContext.mutatedOptions.value
MutatedPool ==
  {EmptyObject}
  \cup {[uuid \in {"u1"} |-> [paragraph_builder_data |-> data]] :
          data \in {Undefined,
                    Defined([key \in {"size"} |-> "small"]),
                    Defined([key \in {"theme"} |-> "blue"])}}

\* the value of the computed the from_library component provides
LibraryPool == {[key \in {"size"} |-> "wide"], [key \in {"size"} |-> "narrow"]}

RInit ==
  /\ config \in ConfigPool
  /\ paragraphItem \in
       {Undefined} \cup
       {Defined([uuid |-> u, paragraphsBuilderOptions |-> o]) :
          u \in {"", "u1"}, o \in PersistedPool}
  /\ editContext \in {Undefined} \cup {Defined([mutatedOptions |-> EmptyObject])}
  /\ fromLibraryOptions \in
       {Undefined, Defined([key \in {"size"} |-> "wide"])}
  /\ paragraph = Undefined
  /\ observed = Undefined
  /\ TransformOff
  /\ WatchOff
  /\ SetupOff
  /\ AnimationOff
  /\ ProviderOff
  /\ ObserverOff

\* the component's setup calls defineParagraph
DefineParagraph ==
  /\ ~paragraph.defined
  /\ paragraph' =
       Defined(defineParagraph(config, paragraphItem, editContext, fromLibraryOptions))
  /\ UNCHANGED <<config, paragraphItem, editContext, fromLibraryOptions, observed>>
  /\ UNCHANGED rframe

\* the user changes options in the editor: the edit state is mutated
MutateOptions(mutatedOptions) ==
  /\ paragraph.defined
  /\ editContext.defined
  /\ editContext' = Defined([mutatedOptions |-> mutatedOptions])
  /\ UNCHANGED <<config, paragraphItem, fromLibraryOptions, paragraph, observed>>
  /\ UNCHANGED rframe

\* the options are persisted: the item carries new paragraphsBuilderOptions
PersistOptions(persisted) ==
  /\ paragraph.defined
  /\ paragraphItem.defined
  /\ paragraphItem' =
       Defined([paragraphItem.value EXCEPT !.paragraphsBuilderOptions = persisted])
  /\ UNCHANGED <<config, editContext, fromLibraryOptions, paragraph, observed>>
  /\ UNCHANGED rframe

\* the wrapper of a reusable paragraph gets other options
ChangeLibraryOptions(options) ==
  /\ paragraph.defined
  /\ fromLibraryOptions.defined
  /\ fromLibraryOptions' = Defined(options)
  /\ UNCHANGED <<config, paragraphItem, editContext, paragraph, observed>>
  /\ UNCHANGED rframe

\* the component renders: it reads options.value
ReadOptions ==
  /\ paragraph.defined
  /\ observed' = Defined(OptionsValue(paragraph.value.options))
  /\ UNCHANGED <<config, paragraphItem, editContext, fromLibraryOptions, paragraph>>
  /\ UNCHANGED rframe

RNext ==
  \/ DefineParagraph
  \/ \E mutatedOptions \in MutatedPool : MutateOptions(mutatedOptions)
  \/ \E persisted \in PersistedPool : PersistOptions(persisted)
  \/ \E options \in LibraryPool : ChangeLibraryOptions(options)
  \/ ReadOptions

SpecRuntime == RInit /\ [][RNext]_vars

(***************************************************************************)
(* Properties of defineParagraph at runtime                                *)
(***************************************************************************)
\* what reading the options of the returned paragraph yields now
EffectiveOptions == OptionsValue(paragraph.value.options)

ItemUuid == IF paragraphItem.defined THEN paragraphItem.value.uuid ELSE ""

InEditContext == editContext.defined /\ ItemUuid # ""

\* mutatedOptions[uuid].paragraph_builder_data, where there is one
LiveOverride ==
  IF /\ editContext.defined
     /\ ItemUuid \in DOMAIN editContext.value.mutatedOptions
     /\ editContext.value.mutatedOptions[ItemUuid].paragraph_builder_data.defined
  THEN editContext.value.mutatedOptions[ItemUuid].paragraph_builder_data.value
  ELSE EmptyObject

Persisted ==
  IF paragraphItem.defined /\ paragraphItem.value.paragraphsBuilderOptions.defined
  THEN paragraphItem.value.paragraphsBuilderOptions.value
  ELSE EmptyObject

\* the defaults the definition declares for its own options
OwnDefaults ==
  IF config.options.defined
  THEN [key \in {k \in DOMAIN config.options.value :
                   "default" \in DOMAIN config.options.value[k]} |->
          config.options.value[key].default]
  ELSE EmptyObject

OptionKeys == {"size", "theme", "spacing", "0", "1"}

\* the value of key is the first one present in the objects of the list
TakesFirstPresent(key, objects) ==
  \A i \in 1..Len(objects) :
    ( /\ key \in DOMAIN objects[i]
      /\ \A j \in 1..(i - 1) : key \notin DOMAIN objects[j] )
    => /\ key \in DOMAIN EffectiveOptions
       /\ EffectiveOptions[key] = objects[i][key]

ResolvedByPrecedence ==
  /\ InEditContext =>
       \A key \in OptionKeys :
         TakesFirstPresent(key, <<LiveOverride, Persisted, OwnDefaults>>)
  /\ ~editContext.defined =>
       \A key \in OptionKeys : TakesFirstPresent(key, <<Persisted, OwnDefaults>>)

\* C17, as the claim has it: in an edit context with a non-empty uuid every key
\* takes the live override if present, else the persisted value if present,
\* else the default; outside an edit context the persisted value if present,
\* else the default.
C17_ResolvedByPrecedence ==
  paragraph.defined => ResolvedByPrecedence

\* C17: the same, for a paragraph that has no library options injected.
C17_ResolvedByPrecedenceUnlessLibrary ==
  (paragraph.defined /\ ~fromLibraryOptions.defined) => ResolvedByPrecedence

\* override, persisted value and default of one key all present, the options
\* read after the user changed them
C17_Witness ==
  /\ paragraph.defined
  /\ ~fromLibraryOptions.defined
  /\ InEditContext
  /\ "size" \in DOMAIN LiveOverride
  /\ "size" \in DOMAIN Persisted
  /\ "size" \in DOMAIN OwnDefaults
  /\ observed.defined
  /\ observed.value = EffectiveOptions
  /\ observed.value["size"] = "small"

\* the global options the definition lists
ListedGlobalOptions ==
  IF config.globalOptions.defined THEN Members(config.globalOptions.value) ELSE {}

\* C18: for every key listed in config.globalOptions whose global default is
\* defined, the resolved options hold the key with that default whenever
\* neither the persisted options nor a live override set the key.
C18_GlobalDefaultsInherited ==
  (paragraph.defined /\ ~fromLibraryOptions.defined) =>
    \A key \in ListedGlobalOptions \cap DOMAIN globalOptionsDefaults :
      ( /\ key \notin DOMAIN Persisted
        /\ ~(InEditContext /\ key \in DOMAIN LiveOverride) )
      => /\ key \in DOMAIN EffectiveOptions
         /\ EffectiveOptions[key] = globalOptionsDefaults[key]

\* C19: the variant of the options is chosen when defineParagraph is called
\* and stays: with library options injected the options are the injected ones,
\* whatever edit context, defaults and persisted options there are; without
\* them the edit variant is used exactly when an edit context is injected and
\* the uuid is not empty, the normal variant otherwise.
C19_VariantChosenOnce ==
  /\ [](paragraph.defined =>
          LET variant == paragraph.value.options.variant
          IN /\ fromLibraryOptions.defined =>
                  /\ variant = "library"
                  /\ EffectiveOptions = fromLibraryOptions.value
             /\ ~fromLibraryOptions.defined =>
                  /\ variant = "edit" <=> (editContext.defined /\ ItemUuid # "")
                  /\ variant = "normal" <=> ~(editContext.defined /\ ItemUuid # ""))
  /\ [][paragraph.defined => paragraph' = paragraph]_vars

\* a reusable paragraph inside the editor, with a live override, persisted
\* options and a default of its own: it shows the options of its wrapper,
\* also after these changed
C19_Witness ==
  /\ paragraph.defined
  /\ paragraph.value.options.variant = "library"
  /\ InEditContext
  /\ "size" \in DOMAIN LiveOverride
  /\ "size" \in DOMAIN Persisted
  /\ "size" \in DOMAIN OwnDefaults
  /\ observed.defined
  /\ observed.value = [key \in {"size"} |-> "narrow"]
  /\ fromLibraryOptions.value = observed.value

(***************************************************************************)
(* The walk of the transform (Part I) and its asynchronous visitor         *)
(***************************************************************************)
\* the transform has walked the tree and returned
WalkedAndReturned == pc = "done" /\ result.kind # "undefined"

\* C20: the walk is synchronous although the visitor is declared async: when
\* the transform evaluates hasChanged and serializes, the visitor has run on
\* every call of the source, in source order, and the overwrite of every
\* matched defineParagraph call is in place (but for a call whose visitor
\* threw); nothing is overwritten once the transform has returned.
C20_WalkIsSynchronous ==
  /\ [](WalkedAndReturned =>
          /\ queue = <<>>
          /\ entered = CallsIn(Parse(source))
          /\ \A i, j \in 1..Len(entered) :
               i < j => entered[i].start <= entered[j].start
          /\ \A i \in 1..Len(entered) :
               IsLiteralDefinitionCall(entered[i]) =>
                 IsOverwritten(entered[i]) \/ IsRejected(entered[i])
          /\ \A i, j \in 1..Len(s.edits) :
               i < j => s.edits[i].start < s.edits[j].start
          /\ result.kind = "code" => result.code = MsToString(s))
  /\ [][(pc = "done" /\ pc' = "done") => (s' = s /\ result' = result)]_vars
  /\ [][(s' # s /\ pc # "start" /\ pc' # "start") =>
          (pc = "walk" /\ pc' = "walk")]_vars

\* two matched calls rewritten and further calls visited, one of them with a
\* visitor that threw, all before the return
C20_Witness ==
  /\ WalkedAndReturned
  /\ result.kind = "code"
  /\ Len(s.edits) >= 2
  /\ Len(entered) > Len(s.edits)
  /\ rejected # <<>>

(***************************************************************************)
(*                                Part V                                   *)
(* The animation provider: the frame counter, the draw requests and the    *)
(* frame callback.                                                         *)
(***************************************************************************)
\* let iterator = 120
FramesPerRequest == 120

\* clientX, clientY of a pointer event
Coordinates == {0, 1}

NoFrameYet == {"<no frame yet>"}

AInit ==
  /\ iterator = FramesPerRequest
  /\ mouse = <<0, 0>>
  /\ requested = FALSE
  /\ emitted = 0
  /\ lastFrame = NoFrameYet
  /\ TransformOff
  /\ WatchOff
  /\ SetupOff
  /\ RuntimeOff
  /\ ProviderOff
  /\ ObserverOff

\* line 71; also the listener of scroll, wheel, select, select:start,
\* select:end, select:toggle, option:update and state:reloaded
requestDraw ==
  /\ iterator' = FramesPerRequest
  /\ requested' = TRUE
  /\ emitted' = 0
  /\ UNCHANGED <<mouse, lastFrame>>
  /\ UNCHANGED aframe

\* lines 22-26
onPointerMove(clientX, clientY) ==
  /\ mouse' = <<clientX, clientY>>
  /\ iterator' = FramesPerRequest
  /\ requested' = TRUE
  /\ emitted' = 0
  /\ UNCHANGED lastFrame
  /\ UNCHANGED aframe

\* variant: the callback never returns early
NeverSkipsFrame(frames) == FALSE

\* line 30: if (iterator < 1) return
SkipsFrame(frames) == frames < 1

\* lines 28-55: the callback of useAnimationFrame; canvas tells whether the
\* canvas context and the wrapper element are there
AnimationFrame(canvas) ==
  /\ IF SkipsFrame(iterator)
     THEN /\ lastFrame' = {}
          /\ UNCHANGED <<iterator, emitted>>
     ELSE /\ iterator' = iterator - 1
          /\ emitted' = emitted + 1
          /\ lastFrame' = {"animationFrame:before"}
                          \cup (IF canvas THEN {"animationFrame"} ELSE {})
  /\ UNCHANGED <<mouse, requested>>
  /\ UNCHANGED aframe

ANext ==
  \/ requestDraw
  \/ \E clientX, clientY \in Coordinates : onPointerMove(clientX, clientY)
  \/ \E canvas \in BOOLEAN : AnimationFrame(canvas)

SpecAnimation == AInit /\ [][ANext]_vars

\* C21: after a draw request that no other request follows, the frame callback
\* emits 'animationFrame:before' on at most 120 frames in a row and on no
\* later frame; the frame counter is within 0..120 in every reachable state.
C21_AtMost120FramesPerRequest ==
  /\ [](/\ iterator \in 0..120
        /\ emitted <= 120
        /\ emitted + iterator = 120)
  /\ [][emitted' = emitted + 1 =>
          /\ iterator >= 1
          /\ iterator' = iterator - 1
          /\ "animationFrame:before" \in lastFrame']_vars
  /\ [][(iterator = 0 /\ iterator' = 0) =>
          (emitted' = emitted /\ lastFrame' = {})]_vars

\* a request, 120 emitting frames, then a frame that emitted nothing
C21_Witness ==
  /\ requested
  /\ emitted = 120
  /\ iterator = 0
  /\ lastFrame = {}

(***************************************************************************)
(*                                Part VI                                  *)
(* The state provider: setContext, the loading state around a mutation     *)
(* and the edit mode.                                                      *)
(***************************************************************************)
\* calls of mutateWithLoadingState
MaxCalls == 2
\* loadState stops once refreshKey has been set this often
MaxRefreshKey == 1

\* value || fallback, for the values of the model (none of them falsy)
OrElse(option, fallback) == IF option.defined THEN option.value ELSE fallback

\* object?.key
Chain(object, key) == IF object.defined THEN object.value[key] ELSE Undefined

\* !!value
ToBool(option) == option.defined /\ option.value = TRUE

\* translations.filter(falsy): the entries that are not null or undefined
FilterFalsy(entries) == SelectSeq(entries, LAMBDA entry : entry.defined)

\* lines 54-73: the refs as created. An absent key of entity reads as
\* undefined; refreshKey 0 is the empty string, later values are Date.now().
InitialProvider ==
  [owner |-> Undefined,
   refreshKey |-> 0,
   mutatedFields |-> <<>>,
   mutations |-> <<>>,
   violations |-> <<>>,
   currentMutationIndex |-> -1,
   entity |-> [id |-> Undefined, changed |-> Undefined, label |-> Undefined,
               status |-> Defined(FALSE), bundleLabel |-> Undefined,
               editUrl |-> Undefined],
   mutatedOptions |-> {},
   translation |-> [isTranslatable |-> FALSE, sourceLanguage |-> "",
                    availableLanguages |-> <<>>, translations |-> <<>>]]

\* adapter.mapState(state): a state the current user owns, in German
OwnedState ==
  [mutatedState |-> Defined([mutatedOptions |-> Defined({"color"}),
                             violations |-> Defined(<<"required">>),
                             fields |-> Defined(<<"field_paragraphs">>)]),
   mutations |-> Defined(<<"add", "move">>),
   currentIndex |-> Defined(1),
   ownerName |-> Defined("ann"),
   currentUserIsOwner |-> Defined(TRUE),
   entity |-> Defined([id |-> Defined("1"), changed |-> Defined(10),
                       label |-> Defined("Home"), status |-> Defined(TRUE),
                       bundleLabel |-> Defined("Page"),
                       editUrl |-> Defined("/node/1/edit")]),
   translationState |-> Defined([isTranslatable |-> Defined(TRUE),
                                 sourceLanguage |-> Defined("de"),
                                 availableLanguages |-> Defined(<<"de", "en">>),
                                 translations |->
                                   Defined(<<Defined("en"), Undefined>>)])]

\* a state somebody else owns, with nothing else in it but the entity
ForeignState ==
  [mutatedState |-> Undefined,
   mutations |-> Undefined,
   currentIndex |-> Undefined,
   ownerName |-> Defined("bob"),
   currentUserIsOwner |-> Undefined,
   entity |-> Defined([id |-> Defined("1"), changed |-> Defined(11),
                       label |-> Defined("Home"), status |-> Defined(FALSE),
                       bundleLabel |-> Undefined,
                       editUrl |-> Undefined]),
   translationState |-> Undefined]

\* a state of the current user that carries no entity
StateWithoutEntity ==
  [mutatedState |-> Defined([mutatedOptions |-> Undefined,
                             violations |-> Defined(<<>>),
                             fields |-> Defined(<<"field_paragraphs">>)]),
   mutations |-> Defined(<<"add">>),
   currentIndex |-> Defined(0),
   ownerName |-> Defined("ann"),
   currentUserIsOwner |-> Defined(TRUE),
   entity |-> Undefined,
   translationState |-> Defined([isTranslatable |-> Defined(FALSE),
                                 sourceLanguage |-> Defined("en"),
                                 availableLanguages |-> Undefined,
                                 translations |-> Undefined])]

MappedStates == {OwnedState, ForeignState, StateWithoutEntity}

Languages == {"de", "en"}

\* lines 78-91: the assignments up to entity.value.bundleLabel
SetContextHead(refs, mapped) ==
  [refs EXCEPT
     !.mutatedOptions = OrElse(Chain(mapped.mutatedState, "mutatedOptions"), {}),
     !.mutations = OrElse(mapped.mutations, <<>>),
     !.violations = OrElse(Chain(mapped.mutatedState, "violations"), <<>>),
     !.currentMutationIndex = OrElse(mapped.currentIndex, -1),
     !.owner = Defined([name |-> mapped.ownerName,
                        currentUserIsOwner |-> ToBool(mapped.currentUserIsOwner)]),
     !.entity = [id |-> Chain(mapped.entity, "id"),
                 changed |-> Chain(mapped.entity, "changed"),
                 label |-> Chain(mapped.entity, "label"),
                 status |-> Chain(mapped.entity, "status"),
                 bundleLabel |-> Defined(OrElse(Chain(mapped.entity, "bundleLabel"), "")),
                 editUrl |-> refs.entity.editUrl]]

\* lines 92-109: context?.entity.editUrl and everything after it
SetContextTail(refs, mapped) ==
  [refs EXCEPT
     !.entity.editUrl = mapped.entity.value.editUrl,
     !.translation =
       [isTranslatable |-> ToBool(Chain(mapped.translationState, "isTranslatable")),
        translations |->
          FilterFalsy(OrElse(Chain(mapped.translationState, "translations"), <<>>)),
        sourceLanguage |->
          OrElse(Chain(mapped.translationState, "sourceLanguage"), ""),
        availableLanguages |->
          OrElse(Chain(mapped.translationState, "availableLanguages"), <<>>)],
     !.mutatedFields = OrElse(Chain(mapped.mutatedState, "fields"), <<>>),
     !.refreshKey = refs.refreshKey + 1]

\* lines 75-110. context?.entity.editUrl (line 92) reads a property of
\* undefined when the state has no entity, and throws after lines 78-91 ran.
setContext(refs, mapped) ==
  IF mapped.entity.defined
  THEN [threw |-> FALSE,
        refs |-> SetContextTail(SetContextHead(refs, mapped), mapped)]
  ELSE [threw |-> TRUE, refs |-> SetContextHead(refs, mapped)]

\* how the promise of a call settles: rejected, or resolved with a result
\* that has a state, a state adapter.mapState throws on, success only, or
\* neither
Outcomes == {"rejected", "state", "unmappable", "success", "neither"}

\* lines 131-148: the body of try and catch after the await
AfterAwait(refs, outcome, mapped) ==
  CASE outcome = "state" ->
         LET applied == setContext(refs, mapped)
         IN  [threw |-> applied.threw, refs |-> applied.refs]
    [] outcome = "success" -> [threw |-> FALSE, refs |-> refs]
    [] OTHER -> [threw |-> TRUE, refs |-> refs]

\* variant: without the unlockBody() of line 150
LoadingAfterAwaitWithoutLastUnlock(outcome, loading) ==
  IF outcome = "rejected" THEN loading ELSE FALSE

\* isLoading when the call returns: unlockBody() at line 133 when the promise
\* resolved, and at line 150 after the catch
LoadingAfterAwait(outcome, loading) == FALSE

PInit ==
  /\ provider = InitialProvider
  /\ isLoading = FALSE
  /\ language = "de"
  /\ mutateCalls = <<>>
  /\ TransformOff
  /\ WatchOff
  /\ SetupOff
  /\ RuntimeOff
  /\ AnimationOff
  /\ ObserverOff

\* lines 154-159 and 202: loadState() once adapter.loadState() has resolved
\* with a state; a throw of setContext rejects the promise of loadState
LoadState(mapped) ==
  /\ provider.refreshKey < MaxRefreshKey
  /\ provider' = setContext(provider, mapped).refs
  /\ UNCHANGED <<isLoading, language, mutateCalls>>
  /\ UNCHANGED pframe

\* the computed context gets another language
ChangeLanguage(to) ==
  /\ to # language
  /\ language' = to
  /\ UNCHANGED <<provider, isLoading, mutateCalls>>
  /\ UNCHANGED pframe

\* lines 127-132: the call up to its await
MutateWithLoadingState(hasPromise, successMessage) ==
  /\ Len(mutateCalls) < MaxCalls
  /\ IF hasPromise
     THEN /\ isLoading' = TRUE
          /\ mutateCalls' = Append(mutateCalls,
               [pc |-> "awaiting", successMessage |-> successMessage,
                returned |-> Undefined, errors |-> 0, successes |-> 0])
     ELSE /\ isLoading' = isLoading
          /\ mutateCalls' = Append(mutateCalls,
               [pc |-> "returned", successMessage |-> successMessage,
                returned |-> Defined(TRUE), errors |-> 0, successes |-> 0])
  /\ UNCHANGED <<provider, language>>
  /\ UNCHANGED pframe

\* lines 132-151: the promise of call i settles and the call runs to its
\* return
Settle(i, outcome, mapped) ==
  /\ mutateCalls[i].pc = "awaiting"
  /\ LET after == AfterAwait(provider, outcome, mapped)
     IN  /\ provider' = after.refs
         /\ mutateCalls' = [mutateCalls EXCEPT ![i] =
              [pc |-> "returned",
               successMessage |-> @.successMessage,
               returned |-> Defined(~after.threw),
               errors |-> IF after.threw THEN 1 ELSE 0,
               successes |-> IF ~after.threw /\ @.successMessage THEN 1 ELSE 0]]
  /\ isLoading' = LoadingAfterAwait(outcome, isLoading)
  /\ UNCHANGED language
  /\ UNCHANGED pframe

PNext ==
  \/ \E mapped \in MappedStates : LoadState(mapped)
  \/ \E to \in Languages : ChangeLanguage(to)
  \/ \E hasPromise, successMessage \in BOOLEAN :
       MutateWithLoadingState(hasPromise, successMessage)
  \/ \E i \in 1..Len(mutateCalls), outcome \in Outcomes, mapped \in MappedStates :
       Settle(i, outcome, mapped)

SpecProvider == PInit /\ [][PNext]_vars

Awaiting == {i \in 1..Len(mutateCalls) : mutateCalls[i].pc = "awaiting"}

\* the calls that return in this step
Returning ==
  {i \in Awaiting : mutateCalls'[i].pc = "returned"}

\* C22: whenever no call of mutateWithLoadingState is in flight, isLoading is
\* false; a call with a promise sets isLoading to true before it awaits and
\* to false by the time it returns, however the promise settles.
C22_LoadingOnlyDuringCalls ==
  /\ [](Awaiting = {} => ~isLoading)
  /\ [][(Len(mutateCalls') > Len(mutateCalls)
         /\ mutateCalls'[Len(mutateCalls')].pc = "awaiting") => isLoading']_vars
  /\ [][Returning # {} => ~isLoading']_vars

\* a call whose promise rejected has returned and nothing is in flight
C22_Witness ==
  /\ Awaiting = {}
  /\ ~isLoading
  /\ \E i \in 1..Len(mutateCalls) :
       /\ mutateCalls[i].returned = Defined(FALSE)
       /\ mutateCalls[i].errors = 1

\* C23: while at least one call of mutateWithLoadingState is still awaiting
\* its promise, isLoading is true, also when calls overlap and one of them
\* completes before the others.
C23_LoadingWhileAnyCallAwaits == Awaiting # {} => isLoading

\* the refs the state provider hands out, without isLoading
ProviderState ==
  [mutations |-> provider.mutations,
   currentMutationIndex |-> provider.currentMutationIndex,
   mutatedOptions |-> provider.mutatedOptions,
   violations |-> provider.violations,
   owner |-> provider.owner,
   entity |-> provider.entity,
   translation |-> provider.translation,
   mutatedFields |-> provider.mutatedFields,
   refreshKey |-> provider.refreshKey]

\* C24: whenever mutateWithLoadingState returns false, exactly one error
\* message has been emitted and the provider state is the one from before
\* the call. (The state is compared across the step in which the call
\* returns, so that what an overlapping call did is not counted.)
C24_FailedCallLeavesStateAlone ==
  [][\A i \in Returning :
       mutateCalls'[i].returned = Defined(FALSE) =>
         /\ mutateCalls'[i].errors = 1
         /\ mutateCalls'[i].successes = 0
         /\ ProviderState' = ProviderState]_vars

\* line 171
canEdit == provider.owner.defined /\ provider.owner.value.currentUserIsOwner

\* lines 172-174
isTranslation == language # provider.translation.sourceLanguage

\* variant: the translation is looked at first
editModeTranslationFirst ==
  IF isTranslation THEN "translating"
  ELSE IF ~canEdit THEN "readonly"
  ELSE "editing"

\* lines 176-185
editMode ==
  IF ~canEdit THEN "readonly"
  ELSE IF isTranslation THEN "translating"
  ELSE "editing"

\* the current user owns the edit state; nobody does before a state is loaded
CurrentUserIsOwner ==
  /\ provider.owner # Undefined
  /\ provider.owner.value.currentUserIsOwner = TRUE

\* C25: editMode is 'readonly' exactly when the current user is not the owner
\* (also before any state was loaded), 'translating' exactly when the user is
\* the owner and the language of the context is not the source language of
\* the translation, and 'editing' otherwise.
C25_EditModeFollowsOwnerAndLanguage ==
  /\ editMode = "readonly" <=> ~CurrentUserIsOwner
  /\ editMode = "translating" <=>
       (CurrentUserIsOwner /\ language # provider.translation.sourceLanguage)
  /\ editMode = "editing" <=>
       (CurrentUserIsOwner /\ language = provider.translation.sourceLanguage)

\* the owner looks at a translation
C25_Witness ==
  /\ provider.owner # Undefined
  /\ provider.translation.sourceLanguage # ""
  /\ editMode = "translating"

(***************************************************************************)
(*                                Part VII                                 *)
(* The delayed intersection observer: observe and unobserve before and     *)
(* after init.                                                             *)
(***************************************************************************)
\* calls of observe, unobserve and init
MaxObserverCalls == 5

Elements == {"a", "b"}

\* new IntersectionObserver(callback, { threshold: 0 })
NewObserver == [targets |-> {}, handed |-> <<>>]

\* observer.observe(el): el becomes a target; a target stays one
ObserverObserve(io, el) ==
  [targets |-> io.targets \cup {el}, handed |-> Append(io.handed, el)]

\* observer.unobserve(el)
ObserverUnobserve(io, el) ==
  [targets |-> io.targets \ {el}, handed |-> io.handed]

\* lines 14-16: for (const el of collected) observer.observe(el)
RECURSIVE ObserveAll(_, _)
ObserveAll(io, pending) ==
  IF pending = <<>> THEN io
  ELSE ObserveAll(ObserverObserve(io, Head(pending)), Tail(pending))

\* variant: init leaves the collected elements where they are
CollectedKeptByInit(pending) == pending

\* line 18: collected = []
CollectedAfterInit(pending) == <<>>

OInit ==
  /\ observer = Undefined
  /\ collected = <<>>
  /\ earlier = <<>>
  /\ history = <<>>
  /\ TransformOff
  /\ WatchOff
  /\ SetupOff
  /\ RuntimeOff
  /\ AnimationOff
  /\ ProviderOff

\* lines 10-19
init ==
  /\ Len(history) < MaxObserverCalls
  /\ observer' = Defined(ObserveAll(NewObserver, collected))
  /\ earlier' = IF observer.defined THEN Append(earlier, observer.value)
                ELSE earlier
  /\ collected' = CollectedAfterInit(collected)
  /\ history' = Append(history, [call |-> "init", el |-> ""])
  /\ UNCHANGED oframe

\* lines 21-27
observe(el) ==
  /\ Len(history) < MaxObserverCalls
  /\ IF observer.defined
     THEN /\ observer' = Defined(ObserverObserve(observer.value, el))
          /\ UNCHANGED collected
     ELSE /\ collected' = Append(collected, el)
          /\ UNCHANGED observer
  /\ history' = Append(history, [call |-> "observe", el |-> el])
  /\ UNCHANGED earlier
  /\ UNCHANGED oframe

\* lines 29-33
unobserve(el) ==
  /\ Len(history) < MaxObserverCalls
  /\ IF observer.defined
     THEN observer' = Defined(ObserverUnobserve(observer.value, el))
     ELSE UNCHANGED observer
  /\ history' = Append(history, [call |-> "unobserve", el |-> el])
  /\ UNCHANGED <<collected, earlier>>
  /\ UNCHANGED oframe

ONext ==
  \/ init
  \/ \E el \in Elements : observe(el)
  \/ \E el \in Elements : unobserve(el)

SpecObserver == OInit /\ [][ONext]_vars

\* the elements of the observe calls among the given calls, in call order
RECURSIVE ObservedElements(_)
ObservedElements(made) ==
  IF made = <<>> THEN <<>>
  ELSE IF Head(made).call = "observe"
       THEN <<Head(made).el>> \o ObservedElements(Tail(made))
       ELSE ObservedElements(Tail(made))

IsInit(n) == history[n].call = "init"

Initialised == \E n \in 1..Len(history) : IsInit(n)

FirstInit == CHOOSE n \in 1..Len(history) : IsInit(n) /\ \A k \in 1..(n - 1) : ~IsInit(k)

\* every observer.observe call made so far, oldest observer first
RECURSIVE HandedBy(_)
HandedBy(observers) ==
  IF observers = <<>> THEN <<>>
  ELSE Head(observers).handed \o HandedBy(Tail(observers))

AllHanded ==
  HandedBy(earlier) \o (IF observer.defined THEN observer.value.handed ELSE <<>>)

\* C26: every element observed before init is handed to the
\* IntersectionObserver exactly once when init runs, in the order observed,
\* and the pending queue is empty afterwards; every element observed after
\* init is handed to the observer at once and never queued.
C26_PendingHandedAtInit ==
  /\ [](IF Initialised
        THEN /\ collected = <<>>
             /\ AllHanded = ObservedElements(history)
        ELSE /\ collected = ObservedElements(history)
             /\ AllHanded = <<>>)
  /\ [][(~Initialised /\ Initialised') =>
          /\ observer'.value.handed = collected
          /\ collected' = <<>>]_vars
  /\ [][(Initialised /\ Len(history') > Len(history)
         /\ history'[Len(history')].call = "observe") =>
          /\ observer'.value.handed =
               Append(observer.value.handed, history'[Len(history')].el)
          /\ collected' = <<>>]_vars

\* two elements were observed before init and one after it
C26_Witness ==
  /\ Initialised
  /\ ObservedElements(SubSeq(history, 1, FirstInit)) = <<"b", "a">>
  /\ ObservedElements(history) = <<"b", "a", "a">>
  /\ AllHanded = <<"b", "a", "a">>

\* the call made last about el is an unobserve
UnobservedLast(el) ==
  \E n \in 1..Len(history) :
    /\ history[n] = [call |-> "unobserve", el |-> el]
    /\ \A k \in (n + 1)..Len(history) : history[k].el # el

\* the targets of the observers there are
RECURSIVE TargetsOf(_)
TargetsOf(observers) ==
  IF observers = <<>> THEN {}
  ELSE Head(observers).targets \cup TargetsOf(Tail(observers))

BeingObserved ==
  TargetsOf(earlier) \cup (IF observer.defined THEN observer.value.targets ELSE {})

\* C27: an element for which unobserve was called after its last observe is
\* not being observed; an element observed and then unobserved before init
\* is not handed to the observer when init runs.
C27_UnobservedIsNotObserved ==
  \A el \in Elements : UnobservedLast(el) => el \notin BeingObserved

=============================================================================
